---- MODULE Spec2Model ----
(***************************************************************************)
(* Metadata recovery pipeline of koishi-plugin-sdkkt: the A1111 parameter  *)
(* parser, the Tool-C (ComfyUI) graph parser, the Tool-B (NovelAI) parser, *)
(* the stealth-PNG decoder and the per-container orchestrators             *)
(* (parsePNGMetadata, parseJPEGMetadata, parseWebPMetadata) behind         *)
(* extractMetadata.                                                        *)
(*                                                                         *)
(* Strings the code takes apart (split, indexOf, startsWith) are modelled  *)
(* as the token sequences the code would obtain from them; strings the     *)
(* code only builds or copies are TLA+ strings.  A JavaScript object is a  *)
(* function whose DOMAIN is the set of its own keys, so that               *)
(* Object.keys(o).length is Cardinality(DOMAIN o).                         *)
(***************************************************************************)
EXTENDS Naturals, Integers, Sequences, FiniteSets, TLC

VARIABLES
  pc,          \* position of the call in progress
  buffer,      \* the byte buffer handed to extractMetadata
  parameters,  \* the string handed to parseA1111Parameters
  workflow,    \* the JSON value handed to extractComfyUIMetadata
  png,         \* the decoded PNG handed to extractStealthPngMetadata
  metadata,    \* the SDMetadata record being filled
  result,      \* the value returned
  ran,         \* tiers run so far, in order
  textChunks,  \* the text chunks of the PNG being parsed, by keyword
  exifData     \* the raw tag fields collected for the fallback, or null

vars == <<pc, buffer, parameters, workflow, png, metadata, result, ran,
          textChunks, exifData>>

\* A variable the specification at hand does not use.
Idle == "idle"

----------------------------------------------------------------------------
(* JavaScript objects                                                      *)

\* {}
EmptyObject == [k \in {} |-> ""]

\* o[k] = v
Put(o, k, v) == [f \in (DOMAIN o) \cup {k} |-> IF f = k THEN v ELSE o[f]]

\* k in o
Has(o, k) == k \in DOMAIN o

\* o[k] is a non-empty string (the truthiness test `if (o.k)` on a string field)
Truthy(o, k) == Has(o, k) /\ o[k] # ""

\* Object.assign(target, source)
ObjectAssign(target, source) ==
  [f \in (DOMAIN target) \cup (DOMAIN source) |->
     IF f \in DOMAIN source THEN source[f] ELSE target[f]]

\* Array.prototype.join over strings
RECURSIVE Join(_, _)
Join(strs, sep) ==
  IF Len(strs) = 0 THEN ""
  ELSE IF Len(strs) = 1 THEN strs[1]
  ELSE strs[1] \o sep \o Join(Tail(strs), sep)

----------------------------------------------------------------------------
(* A1111 parameter strings (src/src/a1111.ts)                              *)
(*                                                                         *)
(* An A1111 string is the sequence of its lines (split on "\n", each       *)
(* trimmed); a line is the sequence of its comma-separated parts (each     *)
(* trimmed, empty parts dropped); a part is [key, value]: the text before  *)
(* its first colon and the text after it, both trimmed.  A part without a  *)
(* colon has colon = FALSE and its text in value.                          *)

Pair(k, v) == [colon |-> TRUE, key |-> k, value |-> v]
Bare(t)    == [colon |-> FALSE, key |-> "", value |-> t]

\* The text of a part, of a line, of a whole string.
RenderPart(p) ==
  IF p.colon THEN p.key \o ":" \o (IF p.value = "" THEN "" ELSE " " \o p.value)
  ELSE p.value

RECURSIVE RenderParts(_)
RenderParts(parts) ==
  IF Len(parts) = 0 THEN ""
  ELSE IF Len(parts) = 1 THEN RenderPart(parts[1])
  ELSE RenderPart(parts[1]) \o ", " \o RenderParts(Tail(parts))

RECURSIVE RenderLines(_)
RenderLines(lines) ==
  IF Len(lines) = 0 THEN ""
  ELSE IF Len(lines) = 1 THEN RenderParts(lines[1])
  ELSE RenderParts(lines[1]) \o "\n" \o RenderLines(Tail(lines))

\* The lowercase needles of parseParameterLine that occur in key.toLowerCase(),
\* for the keys the model draws from.
LowerKeyNeedles ==
  [ k \in {"Steps", "Hires steps", "Sampler", "CFG scale", "Seed", "Size",
           "Model", "Model hash", "Negative prompt", "Clip skip", "q7#Steps"} |->
      CASE k = "Steps"           -> {"steps"}
        [] k = "q7#Steps"        -> {"steps"}
        [] k = "Hires steps"     -> {"steps"}
        [] k = "Sampler"         -> {"sampler"}
        [] k = "CFG scale"       -> {"cfg", "scale"}
        [] k = "Seed"            -> {"seed"}
        [] k = "Size"            -> {"size"}
        [] k = "Model"           -> {"model"}
        [] k = "Model hash"      -> {"model", "hash"}
        [] k = "Negative prompt" -> {}
        [] k = "Clip skip"       -> {} ]

\* lowerKey.includes(needle)
lowerKeyIncludes(key, needle) ==
  key \in DOMAIN LowerKeyNeedles /\ needle \in LowerKeyNeedles[key]

\* line.startsWith(label + ":")
lineStartsWith(line, label) ==
  Len(line) > 0 /\ line[1].colon /\ line[1].key = label

\* The if/else-if chain of parseParameterLine for one part: the field it assigns,
\* or "" when it assigns none.
paramField(p) ==
  IF ~p.colon \/ p.key = "" \/ p.value = "" THEN ""
  ELSE IF lowerKeyIncludes(p.key, "steps") THEN "steps"
  ELSE IF lowerKeyIncludes(p.key, "sampler") THEN "sampler"
  ELSE IF lowerKeyIncludes(p.key, "cfg") /\ lowerKeyIncludes(p.key, "scale")
       THEN "cfgScale"
  ELSE IF lowerKeyIncludes(p.key, "seed") THEN "seed"
  ELSE IF lowerKeyIncludes(p.key, "size") THEN "size"
  ELSE IF lowerKeyIncludes(p.key, "model") /\ ~lowerKeyIncludes(p.key, "hash")
       THEN "model"
  ELSE ""

\* parseParameterLine(line, metadata): every part in order, each assignment
\* unconditional.
RECURSIVE parseParameterLine(_, _)
parseParameterLine(line, md) ==
  IF Len(line) = 0 THEN md
  ELSE LET p == line[1]
           f == paramField(p)
       IN parseParameterLine(Tail(line), IF f = "" THEN md ELSE Put(md, f, p.value))

\* The first loop of parseA1111Parameters: the index of the first line that starts
\* with "Negative prompt:" or "Steps:", or 0 (the initial paramsStartIndex) if none.
RECURSIVE markerIndex(_, _)
markerIndex(lines, i) ==
  IF i > Len(lines) THEN 0
  ELSE IF lineStartsWith(lines[i], "Negative prompt") \/ lineStartsWith(lines[i], "Steps")
       THEN i
  ELSE markerIndex(lines, i + 1)

\* promptLines: the non-empty lines before the marker line (all of them if none).
promptLines(lines) ==
  LET m == markerIndex(lines, 1)
      last == IF m = 0 THEN Len(lines) ELSE m - 1
  IN SelectSeq([i \in 1..last |-> RenderParts(lines[i])], LAMBDA s : s # "")

\* The second loop of parseA1111Parameters, from line i on.
RECURSIVE parseFrom(_, _, _)
parseFrom(lines, i, md) ==
  IF i > Len(lines) THEN md
  ELSE LET line == lines[i] IN
       IF Len(line) = 0 THEN parseFrom(lines, i + 1, md)
       ELSE IF lineStartsWith(line, "Negative prompt")
            THEN parseFrom(lines, i + 1,
                   Put(md, "negativePrompt",
                       RenderParts(<<Bare(line[1].value)>> \o Tail(line))))
       ELSE parseFrom(lines, i + 1, parseParameterLine(line, md))

\* parseA1111Parameters(parameters, metadata).  paramsStartIndex is 0-based in the
\* code and stays 0 when no marker line exists, so the second loop then starts at
\* the first line.
parseA1111Parameters(str, md) ==
  IF Len(str) = 0 \/ RenderLines(str) = "" THEN md
  ELSE LET m == markerIndex(str, 1)
           start == IF m = 0 THEN 1 ELSE m
       IN parseFrom(str, start, Put(md, "prompt", Join(promptLines(str), "\n")))

----------------------------------------------------------------------------
(* JavaScript values read out of JSON                                      *)

Undef  == [t |-> "undefined"]
Null   == [t |-> "null"]
Num(n) == [t |-> "num", v |-> n]
Str(s) == [t |-> "str", v |-> s]
Obj(o) == [t |-> "obj", f |-> o]
Arr(a) == [t |-> "arr", e |-> a]

\* o.k for a parsed JSON object o; undefined for a missing key and for any key of
\* a number, string or array (null and undefined throw instead, see the callers)
Get(o, k) == IF o.t = "obj" /\ k \in DOMAIN o.f THEN o.f[k] ELSE Undef

\* if (x)
JsTruthy(x) ==
  CASE x.t = "undefined" -> FALSE
    [] x.t = "null"      -> FALSE
    [] x.t = "num"       -> x.v # 0
    [] x.t = "str"       -> x.v # ""
    [] OTHER             -> TRUE

\* String(x)
RECURSIVE JsString(_)
JsString(x) ==
  CASE x.t = "num" -> ToString(x.v)
    [] x.t = "str" -> x.v
    [] x.t = "arr" -> Join([i \in 1..Len(x.e) |->
                              IF x.e[i].t \in {"null", "undefined"} THEN ""
                              ELSE JsString(x.e[i])], ",")
    [] x.t = "obj" -> "[object Object]"
    [] OTHER       -> x.t

\* a || b
JsOr(a, b) == IF JsTruthy(a) THEN a ELSE b

\* String.prototype.trim
WhiteSpace == {" ", "\n", "\t", "\r"}

RECURSIVE trim(_)
trim(s) ==
  IF Len(s) = 0 THEN s
  ELSE IF SubSeq(s, 1, 1) \in WhiteSpace THEN trim(SubSeq(s, 2, Len(s)))
  ELSE IF SubSeq(s, Len(s), Len(s)) \in WhiteSpace THEN trim(SubSeq(s, 1, Len(s) - 1))
  ELSE s

\* What a call produced: a returned value, or an exception on its way up.
Return(v) == [kind |-> "return", value |-> v]
Throw(m)  == [kind |-> "throw", message |-> m]

\* The same for a function that fills the record it is given and returns nothing:
\* the record as the call left it, whether it returned or threw.
Done(md)      == [kind |-> "return", metadata |-> md]
Raised(m, md) == [kind |-> "throw", message |-> m, metadata |-> md]

\* null, as the value of a function that returns an object or null
NullResult == Null

----------------------------------------------------------------------------
(* Stealth PNG decoder (src/unnamed/part_003 lines 1-145, stealth.ts) and  *)
(* BitReader (src/src/types.ts)                                            *)
(*                                                                         *)
(* png is [width, height, data]; data holds the alpha byte of each pixel   *)
(* in row-major order (the decoder reads no other channel).                *)

\* 'stealth_pngcomp'
StealthMagic == <<115, 116, 101, 97, 108, 116, 104, 95, 112, 110, 103, 99, 111, 109, 112>>

\* new BitReader(lowestBits)
BitReader(bits) == [data |-> bits, index |-> 0]

\* readByte(): eight readBit() calls, most significant bit first; readBit throws
\* when index >= data.length.
readByte(r) ==
  IF r.index + 8 > Len(r.data)
  THEN [threw |-> TRUE, reader |-> [r EXCEPT !.index = Len(r.data)], value |-> 0]
  ELSE [threw |-> FALSE,
        reader |-> [r EXCEPT !.index = r.index + 8],
        value |-> r.data[r.index + 1] * 128 + r.data[r.index + 2] * 64
                + r.data[r.index + 3] * 32 + r.data[r.index + 4] * 16
                + r.data[r.index + 5] * 8 + r.data[r.index + 6] * 4
                + r.data[r.index + 7] * 2 + r.data[r.index + 8]]

\* readNBytes(n): the loop calls readByte() for i = 0 .. while i < n, and the
\* typed array keeps floor(n) of them.  calls is the number of readByte() calls,
\* keep the array's length.
RECURSIVE readNBytes(_, _, _)
readNBytes(r, calls, keep) ==
  IF calls = 0 THEN [threw |-> FALSE, reader |-> r, value |-> <<>>]
  ELSE LET b == readByte(r) IN
       IF b.threw THEN [threw |-> TRUE, reader |-> b.reader, value |-> <<>>]
       ELSE LET rest == readNBytes(b.reader, calls - 1, IF keep > 0 THEN keep - 1 ELSE 0)
            IN [threw |-> rest.threw, reader |-> rest.reader,
                value |-> IF keep > 0 THEN <<b.value>> \o rest.value ELSE rest.value]

\* buffer.readInt32BE(0): four bytes as a signed 32-bit integer
readInt32BE(b) ==
  (IF b[1] >= 128 THEN b[1] - 256 ELSE b[1]) * 16777216
    + b[2] * 65536 + b[3] * 256 + b[4]

\* readInt32()
readInt32(r) ==
  LET bs == readNBytes(r, 4, 4)
  IN IF bs.threw THEN [threw |-> TRUE, reader |-> bs.reader, value |-> 0]
     ELSE [threw |-> FALSE, reader |-> bs.reader, value |-> readInt32BE(bs.value)]

\* The alpha LSB of every pixel in row-major order; a pixel past the end of data
\* reads undefined, and undefined & 1 is 0.
lowestBits(p) ==
  [i \in 1..(p.width * p.height) |-> IF i <= Len(p.data) THEN p.data[i] % 2 ELSE 0]

\* JSON.parse(gunzipSync(bytes).toString('utf-8')): the payloads the model embeds
\* and the JSON each inflates to; any other byte string is no gzip stream.
StealthJsonFull ==
  Obj([prompt |-> Str("stealth prompt"), negative_prompt |-> Str("stealth negative"),
   steps |-> Num(28), sampler |-> Str("k_euler"), cfg_scale |-> Num(5),
   seed |-> Num(99), size |-> Str("832x1216"), model |-> Str("stealth model"),
   parameters |-> Str("stealth parameters")])

StealthJsonPartial ==
  Obj([prompt |-> Str("stealth prompt"), steps |-> Num(0), seed |-> Num(7)])

StealthJsonEmpty == Obj(EmptyObject)

gunzipJson(bytes) ==
  CASE bytes = <<1>> -> Return(StealthJsonFull)
    [] bytes = <<2>> -> Return(StealthJsonPartial)
    [] bytes = <<3>> -> Return(StealthJsonEmpty)
    [] bytes = <<4>> -> Return(Null)
    [] OTHER         -> Throw("incorrect header check")

\* One `if (jsonData.k) metadata.f = ...` line.
stealthField(md, json, k, f) ==
  IF JsTruthy(Get(json, k)) THEN Put(md, f, JsString(Get(json, k))) ELSE md

\* Lines 74-86: the record built from jsonData.
stealthRecord(json) ==
  LET m1 == stealthField(EmptyObject, json, "prompt", "prompt")
      m2 == stealthField(m1, json, "negative_prompt", "negativePrompt")
      m3 == stealthField(m2, json, "steps", "steps")
      m4 == stealthField(m3, json, "sampler", "sampler")
      m5 == stealthField(m4, json, "cfg_scale", "cfgScale")
      m6 == stealthField(m5, json, "seed", "seed")
      m7 == stealthField(m6, json, "size", "size")
      m8 == stealthField(m7, json, "model", "model")
  IN stealthField(m8, json, "parameters", "parameters")

\* Mutant: only the first 14 characters of the magic are compared.
magicMismatchPrefix(magicBytes) == SubSeq(magicBytes, 1, 14) # SubSeq(StealthMagic, 1, 14)

\* magicString !== magic
magicMismatch(magicBytes) == magicBytes # StealthMagic

\* dataLength <= 0 || dataLength > totalAlphaBits - (magic.length * 8) - 32
lengthInvalid(dataLength, totalAlphaBits) ==
  dataLength <= 0 \/ dataLength > totalAlphaBits - (15 * 8) - 32

\* The body of the try block of extractStealthPngMetadata.
stealthBody(p) ==
  IF Len(p.data) = 0 THEN Return(NullResult)
  ELSE IF p.width * p.height < 15 * 8 THEN Return(NullResult)
  ELSE
    LET reader == BitReader(lowestBits(p))
        magic == readNBytes(reader, 15, 15)
    IN IF magic.threw THEN Throw("BitReader: read beyond bounds")
       ELSE IF magicMismatch(magic.value) THEN Return(NullResult)
       ELSE
         LET len == readInt32(magic.reader) IN
         IF len.threw THEN Throw("BitReader: read beyond bounds")
         ELSE IF lengthInvalid(len.value, p.width * p.height) THEN Return(NullResult)
         ELSE
           LET keep == len.value \div 8
               calls == (len.value + 7) \div 8
               gz == readNBytes(len.reader, calls, keep)
           IN IF gz.threw THEN Throw("BitReader: read beyond bounds")
              ELSE LET json == gunzipJson(gz.value) IN
                   IF json.kind = "throw" THEN json
                   ELSE IF json.value = Null
                        THEN Throw("Cannot read properties of null")
                   ELSE Return(stealthRecord(json.value))

\* try { ... } catch (error) { return null }
catchReturnNull(r) == IF r.kind = "throw" THEN Return(NullResult) ELSE r

\* extractStealthPngMetadata(png)
extractStealthPngMetadata(p) == catchReturnNull(stealthBody(p))

----------------------------------------------------------------------------
(* Tool-C (ComfyUI) graph parser (src/unnamed/part_005 lines 176-441,      *)
(* comfyui.ts).  Workflows and prompts are JSON values.                    *)

\* x === s for a string literal s, and x being one of several literals
IsStr(x, s) == x.t = "str" /\ x.v = s
IsStrIn(x, S) == x.t = "str" /\ x.v \in S

\* Array.isArray(x)
IsArray(x) == x.t = "arr"

\* x is null or undefined: reading a property of x throws a TypeError
IsNullish(x) == x.t \in {"null", "undefined"}

\* a[i] for a 0-based index i; undefined past the end and for a non-array
At(a, i) == IF IsArray(a) /\ i < Len(a.e) THEN a.e[i + 1] ELSE Undef

\* A Map: a function from keys to values; get() of a missing key is undefined.
EmptyMap == [k \in {} |-> Undef]
MapGet(m, k) == IF k \in DOMAIN m THEN m[k] ELSE Undef

\* Object.entries(o) order: integer-like keys ascending, which is the order of the
\* node ids an id-keyed prompt uses.
PromptKeys == <<"1", "2", "3", "4", "5">>
Entries(o) == SelectSeq(PromptKeys, LAMBDA k : k \in DOMAIN o.f)

\* Lines 224-231: the `index: value` lines of one node's widgets_values.
RECURSIVE widgetsContent(_, _)
widgetsContent(values, index) ==
  IF index >= Len(values) THEN <<>>
  ELSE LET value == values[index + 1]
           strValue == trim(JsString(value))
           keep == /\ ~IsNullish(value)
                   /\ ~IsStr(value, "")
                   /\ strValue # ""
       IN (IF keep THEN <<ToString(index) \o ": " \o strValue>> ELSE <<>>)
          \o widgetsContent(values, index + 1)

\* Lines 219-236: the block of one node in the parameters text, "" if none.
nodeContent(node) ==
  LET wv == Get(node, "widgets_values") IN
  IF IsArray(wv) /\ Len(wv.e) > 0
  THEN LET type == Get(node, "type")
           title == Get(node, "title")
           nodeInfo == "节点: " \o (IF JsTruthy(type) THEN JsString(type) ELSE "Unknown")
                       \o (IF JsTruthy(title) THEN " (" \o JsString(title) \o ")" ELSE "")
           wc == widgetsContent(wv.e, 0)
       IN IF Len(wc) > 0 THEN nodeInfo \o "\n" \o Join(wc, "\n") ELSE ""
  ELSE ""

\* Lines 216-237: allContent
RECURSIVE allContent(_)
allContent(nodes) ==
  IF Len(nodes) = 0 THEN <<>>
  ELSE LET c == nodeContent(nodes[1])
       IN (IF c = "" THEN <<>> ELSE <<c>>) \o allContent(Tail(nodes))

\* Lines 245-250: nodeById, later nodes replacing earlier ones with the same id.
RECURSIVE nodeById(_, _)
nodeById(nodes, m) ==
  IF Len(nodes) = 0 THEN m
  ELSE LET node == nodes[1]
           id == Get(node, "id")
       IN nodeById(Tail(nodes), IF id # Undef THEN Put(m, id, node) ELSE m)

\* Lines 254-261: linkMap, keyed by link[0], of the links that are arrays of 5 or
\* more entries.
RECURSIVE linkMapOf(_, _)
linkMapOf(links, m) ==
  IF Len(links) = 0 THEN m
  ELSE LET link == links[1]
       IN linkMapOf(Tail(links),
            IF IsArray(link) /\ Len(link.e) >= 5 THEN Put(m, link.e[1], link) ELSE m)

linkMap(wf) ==
  LET links == Get(wf, "links")
  IN IF JsTruthy(links) /\ IsArray(links) THEN linkMapOf(links.e, EmptyMap) ELSE EmptyMap

IsKSampler(node) == IsStrIn(Get(node, "type"), {"KSampler", "KSamplerAdvanced"})

\* Lines 269-289: the index of the first KSampler/KSamplerAdvanced node, 0 if none.
RECURSIVE firstKSampler(_, _)
firstKSampler(nodes, i) ==
  IF i > Len(nodes) THEN 0
  ELSE IF IsKSampler(nodes[i]) THEN i
  ELSE firstKSampler(nodes, i + 1)

\* Lines 286-288: the last SamplerCustom node the loop reaches before it breaks.
RECURSIVE lastSamplerCustom(_, _, _)
lastSamplerCustom(nodes, i, found) ==
  IF i > Len(nodes) \/ IsKSampler(nodes[i]) THEN found
  ELSE lastSamplerCustom(nodes, i + 1,
         IF IsStr(Get(nodes[i], "type"), "SamplerCustom") THEN nodes[i] ELSE found)

\* Lines 274-284: the source node id traced for the input named `role`; Null when
\* none is traced.  A later input of the same name replaces an earlier trace.
RECURSIVE tracedId(_, _, _, _)
tracedId(inputs, links, role, found) ==
  IF Len(inputs) = 0 THEN found
  ELSE LET input == inputs[1]
           link == MapGet(links, Get(input, "link"))
           hit == /\ IsStr(Get(input, "name"), role)
                  /\ Get(input, "link") # Undef
                  /\ JsTruthy(link)
       IN tracedId(Tail(inputs), links, role, IF hit THEN link.e[2] ELSE found)

sourceNodeId(ksampler, links, role) ==
  LET inputs == Get(ksampler, "inputs")
  IN IF JsTruthy(inputs) /\ IsArray(inputs) THEN tracedId(inputs.e, links, role, Null)
     ELSE Null

\* Lines 299-304: clipTextNodes
clipTextNodes(nodes) ==
  SelectSeq(nodes, LAMBDA n : IsStr(Get(n, "type"), "CLIPTextEncode"))

\* finalNode taking the first text node in file order for both roles when
\* nothing was traced
finalNodeFirstClip(nodes, id, k) ==
  LET traced == IF id # Null THEN MapGet(nodeById(nodes, EmptyMap), id) ELSE Null
      clips == clipTextNodes(nodes)
  IN IF JsTruthy(traced) THEN traced
     ELSE IF Len(clips) >= k THEN clips[1]
     ELSE Null

\* finalNode without the traced node: file order alone decides both roles.
finalNodePositional(nodes, id, k) ==
  LET clips == clipTextNodes(nodes)
  IN IF Len(clips) >= k THEN clips[k] ELSE Null

\* Lines 291-315: the node whose first widget value becomes the prompt (k = 1) or
\* the negative prompt (k = 2): the traced node, else the k-th CLIPTextEncode
\* node in file order, else none (Null).
finalNode(nodes, id, k) ==
  LET traced == IF id # Null THEN MapGet(nodeById(nodes, EmptyMap), id) ELSE Null
      clips == clipTextNodes(nodes)
  IN IF JsTruthy(traced) THEN traced
     ELSE IF Len(clips) >= k THEN clips[k]
     ELSE Null

\* node?.widgets_values?.[0]
firstWidget(node) ==
  IF IsNullish(node) \/ IsNullish(Get(node, "widgets_values")) THEN Undef
  ELSE At(Get(node, "widgets_values"), 0)

\* if (values[i] !== undefined) metadata.f = String(values[i])
widgetField(md, values, i, f) ==
  IF At(values, i) # Undef THEN Put(md, f, JsString(At(values, i))) ELSE md

\* Lines 404-441: extractComfyUIAdditionalData for one node
appendParameters(md, line) ==
  Put(md, "parameters",
      trim((IF Truthy(md, "parameters") THEN md["parameters"] ELSE "") \o "\n" \o line))

additionalData(md, node) ==
  LET type == Get(node, "type")
      w0 == firstWidget(node)
      w1 == At(Get(node, "widgets_values"), 1)
      w2 == At(Get(node, "widgets_values"), 2)
      m1 == IF IsStrIn(type, {"CheckpointLoader", "CheckpointLoaderSimple"}) /\ JsTruthy(w0)
            THEN appendParameters(Put(md, "model", JsString(w0)), "Model: " \o JsString(w0))
            ELSE md
      m2 == IF IsStr(type, "EmptyLatentImage") /\ JsTruthy(w1) /\ JsTruthy(w2)
            THEN Put(m1, "size", JsString(w1) \o "x" \o JsString(w2))
            ELSE m1
      m3 == IF IsStr(type, "VAELoader") /\ JsTruthy(w0)
            THEN appendParameters(m2, "VAE: " \o JsString(w0))
            ELSE m2
  IN IF IsStr(type, "LoraLoader") /\ JsTruthy(w0)
     THEN appendParameters(m3, "LoRA: " \o JsString(w0) \o " (str: "
            \o JsString(IF JsTruthy(w1) THEN w1 ELSE w2) \o ")")
     ELSE m3

RECURSIVE extractComfyUIAdditionalData(_, _)
extractComfyUIAdditionalData(nodes, md) ==
  IF Len(nodes) = 0 THEN md
  ELSE extractComfyUIAdditionalData(Tail(nodes), additionalData(md, nodes[1]))

\* parseComfyUINodeFormat(workflow, metadata).  A null entry of nodes, or a null
\* entry of the sampler's inputs, throws a TypeError at its first property read.
parseComfyUINodeFormat(wf, md) ==
  LET nodes == Get(wf, "nodes").e
      k == firstKSampler(nodes, 1)
      ksamplerNode == IF k = 0 THEN Null ELSE nodes[k]
      samplerNode == lastSamplerCustom(nodes, 1, Null)
      kinputs == Get(ksamplerNode, "inputs")
  IN
  IF \E i \in 1..Len(nodes) : IsNullish(nodes[i])
    THEN Raised("Cannot read properties of null (reading 'widgets_values')", md)
  ELSE IF k # 0 /\ JsTruthy(kinputs) /\ IsArray(kinputs)
          /\ \E i \in 1..Len(kinputs.e) : IsNullish(kinputs.e[i])
    THEN Raised("Cannot read properties of null (reading 'name')",
                LET content == allContent(nodes)
                IN IF Len(content) > 0 THEN Put(md, "parameters", Join(content, "\n\n"))
                   ELSE md)
  ELSE
    LET content == allContent(nodes)
        m0 == IF Len(content) > 0 THEN Put(md, "parameters", Join(content, "\n\n")) ELSE md
        links == linkMap(wf)
        positiveNodeId == IF k = 0 THEN Null ELSE sourceNodeId(ksamplerNode, links, "positive")
        negativeNodeId == IF k = 0 THEN Null ELSE sourceNodeId(ksamplerNode, links, "negative")
        finalPromptNode == finalNode(nodes, positiveNodeId, 1)
        finalNegativeNode == finalNode(nodes, negativeNodeId, 2)
        m1 == IF JsTruthy(firstWidget(finalPromptNode))
              THEN Put(m0, "prompt", JsString(firstWidget(finalPromptNode))) ELSE m0
        m2 == IF JsTruthy(firstWidget(finalNegativeNode))
              THEN Put(m1, "negativePrompt", JsString(firstWidget(finalNegativeNode))) ELSE m1
        kv == Get(ksamplerNode, "widgets_values")
        m3 == IF k # 0 /\ JsTruthy(kv)
              THEN widgetField(widgetField(widgetField(widgetField(
                     m2, kv, 0, "seed"), kv, 1, "steps"), kv, 2, "cfgScale"), kv, 3, "sampler")
              ELSE m2
        sv == Get(samplerNode, "widgets_values")
        m4 == IF samplerNode # Null /\ JsTruthy(sv)
              THEN widgetField(widgetField(m3, sv, 0, "sampler"), sv, 1, "cfgScale")
              ELSE m3
    IN Done(extractComfyUIAdditionalData(nodes, m4))

\* Lines 349-398: one entry of the prompt object.  The record holds strings; a
\* value stored as it is (text, guider) is recorded by its string form.
promptEntry(md, node) ==
  LET class == Get(node, "class_type")
      inputs == JsOr(Get(node, "inputs"), Get(node, "input"))
      text == JsOr(JsOr(Get(inputs, "text"), Get(inputs, "string")), Get(inputs, "prompt"))
      cfg == Get(inputs, "cfg")
      guider == Get(inputs, "guider")
  IN
  IF ~JsTruthy(node) \/ node.t \notin {"obj", "arr"} THEN md
  ELSE IF IsStrIn(class, {"CLIPTextEncode", "CLIPTextEncoder"})
    THEN IF ~JsTruthy(inputs) \/ ~JsTruthy(text) THEN md
         ELSE IF ~Truthy(md, "prompt") THEN Put(md, "prompt", JsString(text))
         ELSE IF ~Truthy(md, "negativePrompt") THEN Put(md, "negativePrompt", JsString(text))
         ELSE md
  ELSE IF IsStrIn(class, {"KSampler", "KSamplerAdvanced"})
    THEN IF ~JsTruthy(inputs) THEN md
         ELSE
           LET m1 == IF Get(inputs, "seed") # Undef
                     THEN Put(md, "seed", JsString(Get(inputs, "seed"))) ELSE md
               m2 == IF Get(inputs, "steps") # Undef
                     THEN Put(m1, "steps", JsString(Get(inputs, "steps"))) ELSE m1
               m3 == IF cfg # Undef \/ Get(inputs, "cfg_scale") # Undef
                     THEN Put(m2, "cfgScale", JsString(JsOr(cfg, Get(inputs, "cfg_scale"))))
                     ELSE m2
               name == JsOr(Get(inputs, "sampler_name"), Get(inputs, "sampler"))
               m4 == IF JsTruthy(name) THEN Put(m3, "sampler", JsString(name)) ELSE m3
           IN IF Get(inputs, "denoise") # Undef
              THEN appendParameters(m4, "Denoising: " \o JsString(Get(inputs, "denoise")))
              ELSE m4
  ELSE IF IsStr(class, "SamplerCustom")
    THEN IF ~JsTruthy(inputs) THEN md
         ELSE
           LET m1 == IF cfg # Undef THEN Put(md, "cfgScale", JsString(cfg)) ELSE md
           IN IF ~JsTruthy(guider) THEN m1
              ELSE IF guider.t = "str" THEN Put(m1, "sampler", guider.v)
              ELSE IF JsTruthy(Get(guider, "sampler_name"))
                THEN Put(m1, "sampler", JsString(Get(guider, "sampler_name")))
              ELSE m1
  ELSE md

\* Object.entries(prompt): the values in key order
entryValues(prompt) ==
  IF prompt.t = "obj" THEN [i \in 1..Len(Entries(prompt)) |-> prompt.f[Entries(prompt)[i]]]
  ELSE IF prompt.t = "arr" THEN prompt.e
  ELSE <<>>

RECURSIVE promptEntries(_, _)
promptEntries(values, md) ==
  IF Len(values) = 0 THEN md
  ELSE promptEntries(Tail(values), promptEntry(md, values[1]))

\* parseComfyUIPromptFormat(prompt, metadata)
parseComfyUIPromptFormat(prompt, md) ==
  IF ~JsTruthy(prompt) \/ prompt.t \notin {"obj", "arr"} THEN Done(md)
  ELSE Done(promptEntries(entryValues(prompt), md))

\* extractComfyUIMetadata(workflow, prompt, metadata): the record it was given,
\* as the call left it.
extractComfyUIMetadata(wf, prompt, md) ==
  LET data == JsOr(wf, prompt) IN
  IF ~JsTruthy(data) THEN Done(md)
  ELSE IF JsTruthy(Get(data, "nodes")) /\ IsArray(Get(data, "nodes"))
    THEN parseComfyUINodeFormat(data, md)
  ELSE IF JsTruthy(Get(data, "prompt")) /\ Get(data, "prompt").t \in {"obj", "arr"}
    THEN parseComfyUIPromptFormat(Get(data, "prompt"), md)
  ELSE IF data.t \in {"obj", "arr"} THEN parseComfyUIPromptFormat(data, md)
  ELSE Done(md)

----------------------------------------------------------------------------
(* Strings, and the texts the containers of the model carry                *)

\* String.prototype.includes
includes(s, sub) ==
  \E i \in 1..(Len(s) - Len(sub) + 1) : SubSeq(s, i, i + Len(sub) - 1) = sub

\* The test every tag and segment tier applies to a candidate text
hasSignature(text) ==
  \/ includes(text, "Steps:") \/ includes(text, "Sampler:")
  \/ includes(text, "CFG scale:") \/ includes(text, "Seed:")

\* An A1111 string, with its lines and parts as split("\n") and split(",") cut it
A1111Lines ==
  << <<Bare("best quality"), Bare("1girl")>>,
     <<Pair("Negative prompt", "lowres")>>,
     <<Pair("Steps", "20"), Pair("Sampler", "Euler a"), Pair("CFG scale", "7"),
       Pair("Seed", "42")>> >>

A1111Text == RenderLines(A1111Lines)

CommentLines == << <<Pair("Steps", "12"), Pair("Sampler", "DDIM")>> >>

CommentText == RenderLines(CommentLines)

\* A parameter line without a sampler
SeedLines == << <<Pair("Steps", "12"), Pair("Seed", "3")>> >>

SeedText == RenderLines(SeedLines)

\* An A1111 string between bytes that belong to no structure
ScanLines ==
  << <<Bare("#### masterpiece")>>,
     <<Pair("Steps", "20"), Pair("Sampler", "Euler a"), Pair("CFG scale", "7"),
       Pair("Seed", "42 ####")>> >>

ScanText == RenderLines(ScanLines)

\* The parameter line alone, and the same line between bytes that belong to
\* nothing: next to it, on lines of their own, and set off by commas
LiteralLines == << <<Pair("Steps", "20"), Pair("Sampler", "Euler a")>> >>

LiteralText == RenderLines(LiteralLines)

GluedLines == << <<Pair("q7#Steps", "20"), Pair("Sampler", "Euler a%z9")>> >>

GluedText == RenderLines(GluedLines)

FramedLines == << <<Bare("q7#")>>, LiteralLines[1], <<Bare("%z9")>> >>

FramedText == RenderLines(FramedLines)

SetOffLines == << <<Bare("q7#")>> \o LiteralLines[1] \o <<Bare("%z9")>> >>

SetOffText == RenderLines(SetOffLines)

\* parameters.split("\n") and param.split(","), for the texts of the model; any
\* other text is one line of one part without a colon.
linesOf(text) ==
  CASE text = A1111Text   -> A1111Lines
    [] text = LiteralText -> LiteralLines
    [] text = GluedText   -> GluedLines
    [] text = FramedText  -> FramedLines
    [] text = SetOffText  -> SetOffLines
    [] text = CommentText -> CommentLines
    [] text = ScanText    -> ScanLines
    [] text = SeedText    -> SeedLines
    [] OTHER              -> << <<Bare(text)>> >>

\* parseA1111Parameters on a text
parseA1111Text(text, md) == parseA1111Parameters(linesOf(text), md)

\* JSON texts and the values JSON.parse gives for them
NovelAIText ==
  "{\"prompt\":\"a dog\",\"uc\":\"bad hands\",\"steps\":28,\"scale\":5,\"seed\":99,"
  \o "\"sampler\":\"k_euler\",\"uncond_per_vibe\":true,"
  \o "\"v4_prompt\":{\"caption\":{\"base_caption\":\"base\","
  \o "\"char_captions\":[{\"char_caption\":\"girl\"},{\"char_caption\":\"\"},null]}},"
  \o "\"director_reference_descriptions\":[{\"caption\":{\"base_caption\":\"ref\"}}],"
  \o "\"director_reference_strengths\":[1,2]}"

NovelAIJson ==
  Obj([k \in {"prompt", "uc", "steps", "scale", "seed", "sampler", "uncond_per_vibe",
              "v4_prompt", "director_reference_descriptions",
              "director_reference_strengths"} |->
    CASE k = "prompt" -> Str("a dog")
      [] k = "uc" -> Str("bad hands")
      [] k = "steps" -> Num(28)
      [] k = "scale" -> Num(5)
      [] k = "seed" -> Num(99)
      [] k = "sampler" -> Str("k_euler")
      [] k = "uncond_per_vibe" -> [t |-> "bool", v |-> TRUE]
      [] k = "v4_prompt" ->
           Obj([c \in {"caption"} |->
             Obj([b \in {"base_caption", "char_captions"} |->
               IF b = "base_caption" THEN Str("base")
               ELSE Arr(<<Obj([x \in {"char_caption"} |-> Str("girl")]),
                          Obj([x \in {"char_caption"} |-> Str("")]), Null>>)])])
      [] k = "director_reference_descriptions" ->
           Arr(<<Obj([c \in {"caption"} |-> Obj([b \in {"base_caption"} |-> Str("ref")])])>>)
      [] OTHER -> Arr(<<Num(1), Num(2)>>)])

PromptMapText ==
  "{\"1\":{\"class_type\":\"CLIPTextEncode\",\"inputs\":{\"text\":\"map prompt\"}},"
  \o "\"2\":{\"class_type\":\"KSampler\",\"inputs\":{\"seed\":5,\"steps\":30,\"cfg\":8,"
  \o "\"sampler_name\":\"dpmpp\"}}}"

PromptMapJson ==
  Obj([k \in {"1", "2"} |->
    IF k = "1"
    THEN Obj([f \in {"class_type", "inputs"} |->
           IF f = "class_type" THEN Str("CLIPTextEncode")
           ELSE Obj([i \in {"text"} |-> Str("map prompt")])])
    ELSE Obj([f \in {"class_type", "inputs"} |->
           IF f = "class_type" THEN Str("KSampler")
           ELSE Obj([i \in {"seed", "steps", "cfg", "sampler_name"} |->
                  CASE i = "seed" -> Num(5) [] i = "steps" -> Num(30)
                    [] i = "cfg" -> Num(8) [] OTHER -> Str("dpmpp")])])])

WorkflowText ==
  "{\"nodes\":[{\"id\":3,\"type\":\"KSampler\",\"widgets_values\":[1,2,3,\"uni_pc\"]},"
  \o "{\"id\":1,\"type\":\"CLIPTextEncode\",\"widgets_values\":[\"graph prompt\"]}]}"

WorkflowJson ==
  Obj([k \in {"nodes"} |->
    Arr(<<Obj([f \in {"id", "type", "widgets_values"} |->
             CASE f = "id" -> Num(3) [] f = "type" -> Str("KSampler")
               [] OTHER -> Arr(<<Num(1), Num(2), Num(3), Str("uni_pc")>>)]),
          Obj([f \in {"id", "type", "widgets_values"} |->
             CASE f = "id" -> Num(1) [] f = "type" -> Str("CLIPTextEncode")
               [] OTHER -> Arr(<<Str("graph prompt")>>)])>>)])

\* JSON.parse
JSONParse(text) ==
  CASE text = NovelAIText   -> Return(NovelAIJson)
    [] text = PromptMapText -> Return(PromptMapJson)
    [] text = WorkflowText  -> Return(WorkflowJson)
    [] text = "null"        -> Return(Null)
    [] text = "{}"          -> Return(Obj(EmptyObject))
    [] OTHER                -> Throw("Unexpected token in JSON")

\* decodeURIComponent: a text without an escape is returned as it is
decodeURIComponent(text) ==
  CASE text = "%7B%7D" -> Return("{}")
    [] includes(text, "%") -> Throw("URI malformed")
    [] OTHER -> Return(text)

----------------------------------------------------------------------------
(* Tool-B (NovelAI) comment parser (src/unnamed/part_006, novelai.ts).     *)
(* A description that is undefined is the empty string here: the code only *)
(* tests it for truthiness.                                                *)

\* x?.k
OptGet(x, k) == IF IsNullish(x) THEN Undef ELSE Get(x, k)

\* Lines 109-117: charCaptions.map(c => c?.char_caption).filter(non-empty strings)
charCaptions(caption) ==
  LET list == Get(caption, "char_captions")
      texts == IF JsTruthy(list) /\ IsArray(list)
               THEN [i \in 1..Len(list.e) |-> OptGet(list.e[i], "char_caption")]
               ELSE <<>>
      kept == SelectSeq(texts, LAMBDA c : c.t = "str" /\ Len(c.v) > 0)
  IN [i \in 1..Len(kept) |-> kept[i].v]

\* if (cond) metadata.f = v
setIf(cond, md, f, v) == IF cond THEN Put(md, f, v) ELSE md

\* if (cond && !metadata.f) metadata.f = v
setUnlessSet(cond, md, f, v) == IF cond /\ ~Truthy(md, f) THEN Put(md, f, v) ELSE md

\* Lines 103-119 and 122-138: one v4 prompt structure into its two fields
v4Fields(md, caption, chars, baseField, charField) ==
  IF ~JsTruthy(caption) THEN md
  ELSE setIf(Len(chars) > 0,
             setIf(JsTruthy(Get(caption, "base_caption")), md, baseField,
                   JsString(Get(caption, "base_caption"))),
             charField, chars)

v4Captured(md, caption, baseField, charField) ==
  v4Fields(md, caption, charCaptions(caption), baseField, charField)

v4Caption(md, commentData, key, baseField, charField) ==
  v4Captured(md, OptGet(Get(commentData, key), "caption"), baseField, charField)

\* x || [], and its length (NaN, which ends every loop, for a value without one)
OrEmpty(x) == IF JsTruthy(x) THEN x ELSE Arr(<<>>)
LengthOf(x) == IF IsArray(x) THEN Len(x.e) ELSE -1

Max(a, b) == IF a >= b THEN a ELSE b

\* Lines 173-196: the composed string of index i (0-based), "" if nothing
directorRef(descs, strengths, secondaries, i) ==
  LET desc == At(descs, i)
      s1 == At(strengths, i)
      s2 == At(secondaries, i)
      r0 == IF ~JsTruthy(desc) THEN ""
            ELSE IF desc.t = "str" THEN desc.v
            ELSE IF JsTruthy(Get(desc, "caption"))
                    /\ JsTruthy(Get(Get(desc, "caption"), "base_caption"))
              THEN JsString(Get(Get(desc, "caption"), "base_caption"))
            ELSE ""
      r1 == IF s1 # Undef THEN r0 \o (IF r0 # "" THEN " " ELSE "") \o JsString(s1) ELSE r0
  IN IF s2 # Undef THEN r1 \o "/" \o JsString(s2) ELSE r1

\* extractDirectorReferences(commentData)
extractDirectorReferences(commentData) ==
  LET descs == OrEmpty(Get(commentData, "director_reference_descriptions"))
      strengths == OrEmpty(Get(commentData, "director_reference_strengths"))
      secondaries == OrEmpty(Get(commentData, "director_reference_secondary_strengths"))
      lengths == {LengthOf(descs), LengthOf(strengths), LengthOf(secondaries)}
      n == IF -1 \in lengths THEN 0
           ELSE Max(LengthOf(descs), Max(LengthOf(strengths), LengthOf(secondaries)))
      refs == [i \in 1..n |-> directorRef(descs, strengths, secondaries, i - 1)]
  IN IF LengthOf(descs) > 0 \/ LengthOf(strengths) > 0
     THEN SelectSeq(refs, LAMBDA r : r # "")
     ELSE <<>>

\* Lines 60-70: JSON.parse(comment), else JSON.parse(decodeURIComponent(comment)),
\* else throw new Error('Invalid JSON format')
parseComment(comment) ==
  LET direct == JSONParse(comment)
      decoded == decodeURIComponent(comment)
  IN IF direct.kind = "return" THEN direct
     ELSE IF decoded.kind = "return" /\ JSONParse(decoded.value).kind = "return"
       THEN JSONParse(decoded.value)
     ELSE Throw("Invalid JSON format")

\* Lines 148-155: the catch block
novelAICatch(comment, md) ==
  IF includes(comment, "Steps:") THEN parseA1111Text(comment, md) ELSE md

\* Lines 77-99: the basic parameters
novelAIBasics(commentData, description, md) ==
  setIf(Get(commentData, "uncond_per_vibe").t = "bool",
    setIf(JsTruthy(Get(commentData, "sampler")),
      setIf(Get(commentData, "seed") # Undef,
        setIf(Get(commentData, "scale") # Undef,
          setIf(Get(commentData, "steps") # Undef,
            setUnlessSet(JsTruthy(Get(commentData, "uc")),
              setUnlessSet(description # "", md, "prompt", description),
              "negativePrompt", JsString(Get(commentData, "uc"))),
            "steps", JsString(Get(commentData, "steps"))),
          "cfgScale", JsString(Get(commentData, "scale"))),
        "seed", JsString(Get(commentData, "seed"))),
      "sampler", JsString(Get(commentData, "sampler"))),
    "naiVibe", Get(commentData, "uncond_per_vibe").v)

\* Lines 141-144
directorInto(md, directorRefs) == setIf(Len(directorRefs) > 0, md, "naiCharRefs", directorRefs)

\* Lines 72-146: the try block once the comment is parsed
novelAIBody(commentData, description, md) ==
  directorInto(
    v4Caption(
      v4Caption(novelAIBasics(commentData, description, md), commentData,
                "v4_prompt", "naiBasePrompt", "naiCharPrompts"),
      commentData, "v4_negative_prompt", "naiNegBasePrompt", "naiNegCharPrompts"),
    extractDirectorReferences(commentData))

\* A null commentData throws at its first property read, after the description
\* line has run
novelAIParsed(parsed, comment, description, md) ==
  IF parsed.kind = "throw" THEN novelAICatch(comment, md)
  ELSE IF IsNullish(parsed.value)
    THEN novelAICatch(comment, setUnlessSet(description # "", md, "prompt", description))
  ELSE novelAIBody(parsed.value, description, md)

\* extractNovelAIMetadata(comment, description, metadata)
extractNovelAIMetadata(comment, description, md) ==
  novelAIParsed(parseComment(comment), comment, description, md)

----------------------------------------------------------------------------
(* SpecA1111: parseA1111Parameters applied to a fresh record, for every    *)
(* string of MaxTokens tokens, a token being a part or a line break.       *)

MaxTokens == 4

NL == [colon |-> FALSE, key |-> "\n", value |-> ""]

A1111Parts ==
  { Bare("1girl"),
    Pair("Negative prompt", "lowres"),
    Pair("Steps", "20"), Pair("Steps", "30"), Pair("Hires steps", "10"),
    Pair("Sampler", "Euler a"), Pair("CFG scale", "7"),
    Pair("Seed", "42"), Pair("Size", "512x768"),
    Pair("Model", "foo"), Pair("Model hash", "abc") }

\* str.split("\n"), then each line split on ",": the lines of a token stream.
RECURSIVE splitLines(_, _)
splitLines(tokens, line) ==
  IF Len(tokens) = 0 THEN <<line>>
  ELSE IF tokens[1] = NL THEN <<line>> \o splitLines(Tail(tokens), <<>>)
  ELSE splitLines(Tail(tokens), Append(line, tokens[1]))

A1111Inputs == { splitLines(t, <<>>) : t \in [1..MaxTokens -> A1111Parts \cup {NL}] }

InitA1111 ==
  /\ parameters \in A1111Inputs
  /\ pc = "start"
  /\ metadata = EmptyObject
  /\ buffer = Idle /\ workflow = Idle /\ png = Idle /\ result = Idle
  /\ textChunks = Idle /\ exifData = Idle
  /\ ran = <<>>

\* const metadata = {}; parseA1111Parameters(parameters, metadata)
A1111Parse ==
  /\ pc = "start"
  /\ metadata' = parseA1111Parameters(parameters, metadata)
  /\ pc' = "done"
  /\ ran' = Append(ran, "a1111")
  /\ UNCHANGED <<buffer, parameters, workflow, png, result, textChunks, exifData>>

NextA1111 == A1111Parse

SpecA1111 == InitA1111 /\ [][NextA1111]_vars

\* The parts parseParameterLine is given, in order: those of every line from the
\* start line on that is not a "Negative prompt:" line.
RECURSIVE flatten(_)
flatten(lines) ==
  IF Len(lines) = 0 THEN <<>>
  ELSE (IF lineStartsWith(lines[1], "Negative prompt") THEN <<>> ELSE lines[1])
       \o flatten(Tail(lines))

pairsParsed(str) ==
  LET m == markerIndex(str, 1)
      start == IF m = 0 THEN 1 ELSE m
  IN SelectSeq(flatten(SubSeq(str, start, Len(str))),
               LAMBDA p : p.colon /\ p.key # "" /\ p.value # "")

\* The needles the specification gives for each canonical key.
CanonicalKeys == {"steps", "sampler", "cfgScale", "seed", "size", "model"}

C10_Matches(p, c) ==
  CASE c = "steps"    -> lowerKeyIncludes(p.key, "steps")
    [] c = "sampler"  -> lowerKeyIncludes(p.key, "sampler")
    [] c = "cfgScale" -> lowerKeyIncludes(p.key, "cfg") /\ lowerKeyIncludes(p.key, "scale")
    [] c = "seed"     -> lowerKeyIncludes(p.key, "seed")
    [] c = "size"     -> lowerKeyIncludes(p.key, "size")
    [] c = "model"    -> lowerKeyIncludes(p.key, "model") /\ ~lowerKeyIncludes(p.key, "hash")

C10_FirstMatch(str, c) ==
  LET ps == pairsParsed(str)
      idx == { i \in 1..Len(ps) : C10_Matches(ps[i], c) }
  IN IF idx = {} THEN 0 ELSE CHOOSE i \in idx : \A j \in idx : i <= j

\* C10: in the A1111 parser the first `key: value` pair matching a canonical key
\* (steps, sampler, cfg scale, seed, size, model) determines the field, later
\* pairs matching the same canonical key are ignored, and a `model hash` pair
\* never sets model.
C10_FirstMatchWins ==
  pc = "done" =>
    \A c \in CanonicalKeys :
      LET ps == pairsParsed(parameters)
          i == C10_FirstMatch(parameters, c)
      IN /\ i # 0 => Has(metadata, c) /\ metadata[c] = ps[i].value
         /\ i = 0 => ~Has(metadata, c)

----------------------------------------------------------------------------
(* SpecStealth: extractStealthPngMetadata applied to decoded images that   *)
(* carry a stealth envelope (magic, length, payload), the envelope intact  *)
(* or damaged: one magic bit flipped, a length of 0, beyond the remaining  *)
(* bits, not a multiple of 8 or with the top bit set, a payload that does  *)
(* not inflate, an image too small for the envelope, missing pixel data.   *)

StealthWidth == 8
MinHeight == 14
MaxHeight == 21

\* The bits of a byte, most significant first.
ByteBits(b) == [i \in 1..8 |-> (b \div (2 ^ (8 - i))) % 2]

RECURSIVE BytesBits(_)
BytesBits(bs) == IF Len(bs) = 0 THEN <<>> ELSE ByteBits(bs[1]) \o BytesBits(Tail(bs))

MagicBits == BytesBits(StealthMagic)

LengthFields ==
  { <<0, 0, 0, 0>>, <<0, 0, 0, 8>>, <<0, 0, 0, 12>>, <<0, 0, 0, 16>>,
    <<0, 0, 1, 0>>, <<128, 0, 0, 8>>, <<255, 255, 255, 248>> }

PayloadBytes == {0, 1, 2, 3, 4}

\* The image of the given height whose alpha LSBs spell the envelope (cut or
\* zero-padded to the pixel count), with bit `flip` of the stream inverted.
EnvelopeBits(flip, len, payload) ==
  LET raw == MagicBits \o BytesBits(len) \o ByteBits(payload)
  IN [i \in 1..Len(raw) |-> IF i = flip THEN 1 - raw[i] ELSE raw[i]]

StealthPng(h, flip, len, payload, form) ==
  LET env == EnvelopeBits(flip, len, payload)
      n == StealthWidth * h
      m == CASE form = "full"  -> n
             [] form = "cut"   -> n \div 2
             [] form = "empty" -> 0
  IN [width |-> StealthWidth, height |-> h,
      data |-> [i \in 1..m |-> 254 + (IF i <= Len(env) THEN env[i] ELSE 0)]]

StealthInputs ==
  { StealthPng(h, flip, len, 1, "full") :
      h \in MinHeight..MaxHeight, flip \in 0..120, len \in LengthFields }
  \cup
  { StealthPng(h, 0, len, payload, form) :
      h \in MinHeight..MaxHeight, len \in LengthFields, payload \in PayloadBytes,
      form \in {"full", "cut", "empty"} }

InitStealth ==
  /\ png \in StealthInputs
  /\ pc = "start"
  /\ result = Idle
  /\ buffer = Idle /\ parameters = Idle /\ workflow = Idle
  /\ textChunks = Idle /\ exifData = Idle
  /\ metadata = EmptyObject
  /\ ran = <<>>

\* A call of extractStealthPngMetadata(png).
StealthDecode ==
  /\ pc = "start"
  /\ result' = extractStealthPngMetadata(png)
  /\ pc' = "done"
  /\ ran' = Append(ran, "stealth")
  /\ UNCHANGED <<buffer, parameters, workflow, png, metadata, textChunks, exifData>>

NextStealth == StealthDecode

SpecStealth == InitStealth /\ [][NextStealth]_vars

\* The first 120 alpha LSBs differ from the magic in some bit (or do not exist).
C5_MagicDiffers ==
  LET bits == lowestBits(png)
  IN Len(bits) < 120 \/ \E i \in 1..120 : bits[i] # MagicBits[i]

\* The four bytes after the magic, when the stream has them.
C5_LengthBytes ==
  LET bits == lowestBits(png)
  IN [k \in 1..4 |->
        bits[120 + 8 * (k - 1) + 1] * 128 + bits[120 + 8 * (k - 1) + 2] * 64
      + bits[120 + 8 * (k - 1) + 3] * 32 + bits[120 + 8 * (k - 1) + 4] * 16
      + bits[120 + 8 * (k - 1) + 5] * 8 + bits[120 + 8 * (k - 1) + 6] * 4
      + bits[120 + 8 * (k - 1) + 7] * 2 + bits[120 + 8 * (k - 1) + 8]]

\* The unsigned big-endian length L fails 0 < L <= remaining bits.  An L with the
\* top bit set is at least 2^31, more than any image here has left.
C5_LengthFails ==
  LET total == png.width * png.height
      b == C5_LengthBytes
  IN /\ total >= 152
     /\ \/ b[1] >= 128
        \/ b[1] * 16777216 + b[2] * 65536 + b[3] * 256 + b[4] = 0
        \/ b[1] * 16777216 + b[2] * 65536 + b[3] * 256 + b[4] > total - 152

\* C5: the steganographic decoder never throws, and returns "not present" (null)
\* whenever the first 120 alpha-LSB bits differ from the magic in any bit or the
\* 32-bit big-endian length L fails 0 < L <= remaining bits.
C5_NotPresent ==
  pc = "done" =>
    /\ result.kind = "return"
    /\ (C5_MagicDiffers \/ C5_LengthFails) => result.value = NullResult

\* An envelope that decodes but for one flipped magic bit is "not present".
C5_Witness ==
  /\ pc = "done"
  /\ png.height = MaxHeight /\ Len(png.data) = png.width * png.height
  /\ Cardinality({i \in 1..120 : lowestBits(png)[i] # MagicBits[i]}) = 1
  /\ ~C5_LengthFails
  /\ result = Return(NullResult)

----------------------------------------------------------------------------
(* SpecComfy: extractComfyUIMetadata applied to a fresh record, for every  *)
(* node-array workflow of up to MaxTextNodes text nodes and one sampler,   *)
(* in every file order.  Text node i has id i and feeds link 10 + i; the   *)
(* sampler has the next id.                                                *)

MaxTextNodes == 2

SamplerTypes == {"KSampler", "KSamplerAdvanced", "SamplerCustom"}

\* The text of text node i, or the empty string of a node left blank
TextsOf(i) == {"text" \o ToString(i), ""}

LinkOf(i) == 10 + i

TextNode(i, text) ==
  Obj([k \in {"id", "type", "widgets_values"} |->
         CASE k = "id" -> Num(i)
           [] k = "type" -> Str("CLIPTextEncode")
           [] OTHER -> Arr(<<Str(text)>>)])

\* An unconnected input carries link: null
InputOf(name, link) ==
  Obj([k \in {"name", "link"} |->
         IF k = "name" THEN Str(name) ELSE IF link = 0 THEN Null ELSE Num(link)])

SamplerNode(id, type, pos, neg) ==
  Obj([k \in {"id", "type", "inputs", "widgets_values"} |->
         CASE k = "id" -> Num(id)
           [] k = "type" -> Str(type)
           [] k = "inputs" -> Arr(<<InputOf("model", 1), InputOf("positive", pos),
                                    InputOf("negative", neg)>>)
           [] OTHER -> Arr(<<Num(42), Num(20), Num(7), Str("euler")>>)])

\* [linkId, sourceNodeId, sourceSlot, targetNodeId, targetSlot, type], or the
\* same cut short to four entries
LinkTuple(i, n, full) ==
  Arr(<<Num(LinkOf(i)), Num(i), Num(0), Num(n + 1)>>
      \o (IF full THEN <<Num(i), Str("CONDITIONING")>> ELSE <<>>))

LinkTables == {"absent", "full", "short"}

FileOrders(n) == { p \in [1..n -> 1..n] : \A i, j \in 1..n : p[i] = p[j] => i = j }

WorkflowOf(n, texts, type, pos, neg, table, order) ==
  LET nodeAt(i) == IF order[i] = n + 1 THEN SamplerNode(n + 1, type, pos, neg)
                   ELSE TextNode(order[i], texts[order[i]])
      nodes == Arr([i \in 1..(n + 1) |-> nodeAt(i)])
      links == Arr([i \in 1..n |-> LinkTuple(i, n, table = "full")])
  IN IF table = "absent" THEN Obj([k \in {"nodes"} |-> nodes])
     ELSE Obj([k \in {"nodes", "links"} |-> IF k = "nodes" THEN nodes ELSE links])

InitComfy ==
  /\ \E n \in 1..MaxTextNodes :
       \E texts \in [1..n -> UNION { TextsOf(i) : i \in 1..n }],
          type \in SamplerTypes,
          pos \in {0} \cup { LinkOf(i) : i \in 1..n },
          neg \in {0} \cup { LinkOf(i) : i \in 1..n },
          table \in LinkTables,
          order \in FileOrders(n + 1) :
         /\ \A i \in 1..n : texts[i] \in TextsOf(i)
         /\ workflow = WorkflowOf(n, texts, type, pos, neg, table, order)
  /\ pc = "start"
  /\ metadata = EmptyObject
  /\ buffer = Idle /\ parameters = Idle /\ png = Idle /\ result = Idle
  /\ textChunks = Idle /\ exifData = Idle
  /\ ran = <<>>

\* const result = extractComfyUIMetadata(workflow, null, {})
ComfyParse ==
  /\ pc = "start"
  /\ LET r == extractComfyUIMetadata(workflow, Null, metadata)
     IN /\ metadata' = r.metadata
        /\ result' = r.kind
  /\ pc' = "done"
  /\ ran' = Append(ran, "comfyui")
  /\ UNCHANGED <<buffer, parameters, workflow, png, textChunks, exifData>>

NextComfy == ComfyParse

SpecComfy == InitComfy /\ [][NextComfy]_vars

\* The graph the workflow file describes, read off the file as a set of nodes
\* and a set of links.
C4_Nodes == { workflow.f["nodes"].e[i] : i \in 1..Len(workflow.f["nodes"].e) }

C4_Position(node) ==
  CHOOSE i \in 1..Len(workflow.f["nodes"].e) : workflow.f["nodes"].e[i] = node

C4_Text(node) == node.f["widgets_values"].e[1].v

C4_TextNodes == { n \in C4_Nodes : n.f["type"].v = "CLIPTextEncode" }

C4_Samplers(types) == { n \in C4_Nodes : n.f["type"].v \in types }

C4_Links ==
  IF "links" \in DOMAIN workflow.f
  THEN { workflow.f["links"].e[i] : i \in 1..Len(workflow.f["links"].e) }
  ELSE {}

\* The text nodes the sampler's input `role` resolves to: the source nodes of the
\* links (tuples of five or more entries) the input references.
C4_Resolved(sampler, role) ==
  { n \in C4_TextNodes :
      \E i \in 1..Len(sampler.f["inputs"].e), l \in C4_Links :
        /\ sampler.f["inputs"].e[i].f["name"].v = role
        /\ Len(l.e) >= 5
        /\ sampler.f["inputs"].e[i].f["link"] = l.e[1]
        /\ l.e[2] = n.f["id"] }

\* A field of the record as a reader sees it: an unset field reads as empty.
C4_Field(f) == IF Has(metadata, f) THEN metadata[f] ELSE ""

C18_TextNodesInOrder ==
  SelectSeq(workflow.f["nodes"].e, LAMBDA n : n.f["type"].v = "CLIPTextEncode")

\* No link resolves for either role of any sampler
C18_NothingResolves ==
  \A sampler \in C4_Samplers(SamplerTypes) :
    C4_Resolved(sampler, "positive") = {} /\ C4_Resolved(sampler, "negative") = {}

\* C18: in the node-array parser, when the graph has no link table, or no link
\* resolves for either role, prompt is the first widget value of the first text
\* node in file order and negativePrompt is that of the second text node in file
\* order (a field is set exactly when that value is not empty; unset reads as
\* empty).
C18_PositionalFallback ==
  pc = "done" /\ ("links" \notin DOMAIN workflow.f \/ C18_NothingResolves) =>
    /\ Len(C18_TextNodesInOrder) >= 1 =>
         /\ C4_Field("prompt") = C4_Text(C18_TextNodesInOrder[1])
         /\ Has(metadata, "prompt") <=> C4_Text(C18_TextNodesInOrder[1]) # ""
    /\ Len(C18_TextNodesInOrder) >= 2 =>
         /\ C4_Field("negativePrompt") = C4_Text(C18_TextNodesInOrder[2])
         /\ Has(metadata, "negativePrompt") <=> C4_Text(C18_TextNodesInOrder[2]) # ""

\* A workflow without link table whose KSampler inputs name links, text node 2
\* before text node 1 in the file: prompt is the text of node 2, negativePrompt
\* that of node 1.
C18_Witness ==
  /\ pc = "done"
  /\ "links" \notin DOMAIN workflow.f
  /\ \E sampler \in C4_Samplers({"KSampler"}) :
       \E i \in 1..Len(sampler.f["inputs"].e) :
         sampler.f["inputs"].e[i].f["name"].v = "positive"
         /\ sampler.f["inputs"].e[i].f["link"] = Num(LinkOf(1))
  /\ Len(C18_TextNodesInOrder) = 2
  /\ C18_TextNodesInOrder[1].f["id"] = Num(2)
  /\ Has(metadata, "prompt") /\ metadata["prompt"] = "text2"
  /\ Has(metadata, "negativePrompt") /\ metadata["negativePrompt"] = "text1"

----------------------------------------------------------------------------
(* SpecExports: one graph in its two exports, the node-array workflow with *)
(* its link table and the id-keyed prompt map, as the `workflow` and       *)
(* `prompt` chunks of one file carry them; each is handed to               *)
(* extractComfyUIMetadata with a fresh record.  The record of the workflow *)
(* is kept in metadata, the record of the prompt map in result.            *)

\* An input of the prompt map wired to the output of node `id`: [id, slot]
WiredTo(id) == Arr(<<Str(ToString(id)), Num(0)>>)

\* Text node i of the prompt map
PromptTextNode(text) ==
  Obj([k \in {"class_type", "inputs"} |->
         IF k = "class_type" THEN Str("CLIPTextEncode")
         ELSE Obj([j \in {"text"} |-> Str(text)])])

\* The sampler of the prompt map: the widget values [42, 20, 7, "euler"] of
\* SamplerNode under their input names, and the wired inputs.  pos and neg are
\* link ids, 0 for an input left unconnected.
PromptSamplerNode(type, pos, neg) ==
  LET wired == (IF pos = 0 THEN {} ELSE {"positive"}) \cup (IF neg = 0 THEN {} ELSE {"negative"})
  IN Obj([k \in {"class_type", "inputs"} |->
         IF k = "class_type" THEN Str(type)
         ELSE Obj([j \in {"seed", "steps", "cfg", "sampler_name"} \cup wired |->
                CASE j = "seed" -> Num(42)
                  [] j = "steps" -> Num(20)
                  [] j = "cfg" -> Num(7)
                  [] j = "sampler_name" -> Str("euler")
                  [] j = "positive" -> WiredTo(pos - 10)
                  [] OTHER -> WiredTo(neg - 10)])])

PromptOf(n, texts, type, pos, neg) ==
  Obj([id \in { ToString(i) : i \in 1..(n + 1) } |->
         IF id = ToString(n + 1) THEN PromptSamplerNode(type, pos, neg)
         ELSE PromptTextNode(texts[CHOOSE i \in 1..n : ToString(i) = id])])

InitExports ==
  /\ \E n \in 1..MaxTextNodes :
       \E texts \in [1..n -> UNION { TextsOf(i) : i \in 1..n }],
          type \in SamplerTypes,
          pos \in {0} \cup { LinkOf(i) : i \in 1..n },
          neg \in {0} \cup { LinkOf(i) : i \in 1..n },
          order \in FileOrders(n + 1) :
         /\ \A i \in 1..n : texts[i] \in TextsOf(i)
         /\ textChunks = [k \in {"workflow", "prompt"} |->
                            IF k = "workflow"
                            THEN WorkflowOf(n, texts, type, pos, neg, "full", order)
                            ELSE PromptOf(n, texts, type, pos, neg)]
  /\ pc = "start"
  /\ metadata = EmptyObject
  /\ result = EmptyObject
  /\ buffer = Idle /\ parameters = Idle /\ png = Idle /\ workflow = Idle
  /\ exifData = Idle
  /\ ran = <<>>

ExportsLeft == IF Len(ran) = 1 THEN "done" ELSE "start"

\* extractComfyUIMetadata(workflow, null, {}) on the node-array export
ParseWorkflowExport ==
  /\ pc = "start"
  /\ \A i \in 1..Len(ran) : ran[i] # "workflow"
  /\ metadata' = extractComfyUIMetadata(textChunks["workflow"], Null, EmptyObject).metadata
  /\ ran' = Append(ran, "workflow")
  /\ pc' = ExportsLeft
  /\ UNCHANGED <<buffer, parameters, workflow, png, textChunks, exifData, result>>

\* extractComfyUIMetadata(null, prompt, {}) on the id-keyed map export
ParsePromptExport ==
  /\ pc = "start"
  /\ \A i \in 1..Len(ran) : ran[i] # "prompt"
  /\ result' = extractComfyUIMetadata(Null, textChunks["prompt"], EmptyObject).metadata
  /\ ran' = Append(ran, "prompt")
  /\ pc' = ExportsLeft
  /\ UNCHANGED <<buffer, parameters, workflow, png, textChunks, exifData, metadata>>

NextExports == ParseWorkflowExport \/ ParsePromptExport

SpecExports == InitExports /\ [][NextExports]_vars

CanonicalFields ==
  {"prompt", "negativePrompt", "seed", "steps", "cfgScale", "sampler", "model", "size",
   "parameters"}

\* A field of a record as a reader sees it: an unset field reads as empty.
FieldOf(md, f) == IF Has(md, f) THEN md[f] ELSE ""

\* C11: for every Tool-C graph, the record parsed from its node-array export with
\* link table and the record parsed from its id-keyed map export are the same in
\* prompt, negativePrompt, seed, steps, cfgScale, sampler, model, size and
\* parameters.
C11_ExportsAgree ==
  pc = "done" => \A f \in CanonicalFields : FieldOf(metadata, f) = FieldOf(result, f)

----------------------------------------------------------------------------
(* The extraction pipeline: extractMetadata (src/src/extractor.ts),        *)
(* detectImageFormat (src/src/utils.ts), parsePNGMetadata (src/src/png.ts),*)
(* parseJPEGMetadata (src/unnamed/part_001, jpeg.ts) and parseWebPMetadata *)
(* (src/unnamed/part_003, webp.ts).                                        *)
(*                                                                         *)
(* A buffer is its first bytes (head, up to 12), and what the container    *)
(* walkers and the external decoders find in the rest: the chunks of a PNG *)
(* and the image pngjs decodes from it, the segments of a JPEG, the EXIF   *)
(* and XMP chunks of a WebP, the tag tree ExifReader loads, and the text   *)
(* the buffer holds outside any structure.                                 *)

\* { success: true, data } and { success: false, error }
Success(data) == [success |-> TRUE, data |-> data]
Failure(error) == [success |-> FALSE, error |-> error]

\* detectImageFormat comparing three bytes of the PNG magic instead of four
detectImageFormatThreeBytes(b) ==
  LET h == b.head IN
  IF Len(h) < 12 THEN ""
  ELSE IF h[1] = 137 /\ h[2] = 80 /\ h[3] = 78 THEN "png"
  ELSE IF h[1] = 255 /\ h[2] = 216 /\ h[3] = 255 THEN "jpeg"
  ELSE IF /\ h[1] = 82 /\ h[2] = 73 /\ h[3] = 70 /\ h[4] = 70
          /\ h[9] = 87 /\ h[10] = 69 /\ h[11] = 66 /\ h[12] = 80 THEN "webp"
  ELSE ""

\* detectImageFormat(buffer); "" is null
detectImageFormat(b) ==
  LET h == b.head IN
  IF Len(h) < 12 THEN ""
  ELSE IF h[1] = 137 /\ h[2] = 80 /\ h[3] = 78 /\ h[4] = 71 THEN "png"
  ELSE IF h[1] = 255 /\ h[2] = 216 /\ h[3] = 255 THEN "jpeg"
  ELSE IF /\ h[1] = 82 /\ h[2] = 73 /\ h[3] = 70 /\ h[4] = 70
          /\ h[9] = 87 /\ h[10] = 69 /\ h[11] = 66 /\ h[12] = 80 THEN "webp"
  ELSE ""

\* o.k of an object of strings; undefined reads as the empty string, which the
\* truthiness tests and the comparisons with a literal treat alike
Text(o, k) == IF k \in DOMAIN o THEN o[k] ELSE ""

\* One chunk into textChunks: parseTextChunk, parseInternationalTextChunk,
\* parseCompressedTextChunk.  A chunk is [type, keyword, method, text, inflates]:
\* method is the compression method byte (and, for iTXt, flag 1), or -1 for an
\* uncompressed text; raw is what the compressed bytes read as when taken as text.
CompressedBytes == "x\\u009c"

chunkInto(chunk, chunks) ==
  CASE chunk.type = "tEXt" -> Put(chunks, chunk.keyword, chunk.text)
    [] chunk.type = "iTXt" ->
         Put(chunks, chunk.keyword,
             IF chunk.method = -1 THEN chunk.text
             ELSE IF chunk.method = 0 /\ chunk.inflates THEN chunk.text
             ELSE CompressedBytes)
    [] chunk.type = "zTXt" ->
         IF chunk.method = 0 /\ chunk.inflates THEN Put(chunks, chunk.keyword, chunk.text)
         ELSE chunks
    [] OTHER -> chunks

\* extractPngTextChunks(buffer): the chunks in file order up to IEND
RECURSIVE walkChunks(_, _)
walkChunks(chunks, found) ==
  IF Len(chunks) = 0 \/ chunks[1].type = "IEND" THEN found
  ELSE walkChunks(Tail(chunks), chunkInto(chunks[1], found))

extractPngTextChunks(b) == walkChunks(b.chunks, EmptyObject)

\* png.ts lines 31-32: what the catch of the prompt tier leaves
promptCaught(r, prompt) ==
  IF r.kind = "throw" THEN Put(r.metadata, "prompt", prompt) ELSE r.metadata

\* png.ts lines 27-33: the prompt chunk
pngPrompt(promptData, prompt) ==
  IF promptData.kind = "throw" THEN Put(EmptyObject, "prompt", prompt)
  ELSE promptCaught(extractComfyUIMetadata(Null, promptData.value, EmptyObject), prompt)

\* png.ts lines 21-33: the parameters chunk, else the prompt chunk
pngPrimary(chunks) ==
  IF Text(chunks, "parameters") # ""
    THEN parseA1111Text(Text(chunks, "parameters"),
                        Put(EmptyObject, "parameters", Text(chunks, "parameters")))
  ELSE IF Text(chunks, "prompt") = "" THEN EmptyObject
  ELSE pngPrompt(JSONParse(Text(chunks, "prompt")), Text(chunks, "prompt"))

\* png.ts lines 36-42: NovelAI detection
pngNovelAIApplies(chunks) ==
  /\ Text(chunks, "Software") = "NovelAI" \/ Text(chunks, "software") = "NovelAI"
  /\ (IF Text(chunks, "Comment") # "" THEN Text(chunks, "Comment")
      ELSE Text(chunks, "comment")) # ""

pngNovelAI(chunks, md) ==
  IF pngNovelAIApplies(chunks)
  THEN extractNovelAIMetadata(
         IF Text(chunks, "Comment") # "" THEN Text(chunks, "Comment")
         ELSE Text(chunks, "comment"),
         IF Text(chunks, "Description") # "" THEN Text(chunks, "Description")
         ELSE Text(chunks, "description"),
         md)
  ELSE md

\* png.ts lines 45-47
pngDescription(chunks, md) ==
  IF Text(chunks, "Description") # "" /\ ~Truthy(md, "prompt")
  THEN Put(md, "prompt", Text(chunks, "Description"))
  ELSE md

\* One `if (commentData.k) metadata.f = ...` line of the Comment tier
commentField(md, commentData, k, f) ==
  IF JsTruthy(Get(commentData, k)) THEN Put(md, f, JsString(Get(commentData, k))) ELSE md

\* png.ts lines 50-67: the Comment chunk as JSON, else as an A1111 string
pngCommentApplies(chunks, md) ==
  Text(chunks, "Comment") # "" /\ ~Truthy(md, "parameters")

commentParsed(parsed, comment, md) ==
  IF parsed.kind = "throw" \/ IsNullish(parsed.value)
    THEN IF includes(comment, "Steps:")
         THEN parseA1111Text(comment, Put(md, "parameters", comment))
         ELSE md
  ELSE IF JsTruthy(Get(parsed.value, "prompt")) \/ JsTruthy(Get(parsed.value, "uc"))
    THEN commentField(commentField(commentField(commentField(commentField(commentField(
           md, parsed.value, "prompt", "prompt"), parsed.value, "uc", "negativePrompt"),
           parsed.value, "steps", "steps"), parsed.value, "scale", "cfgScale"),
           parsed.value, "seed", "seed"), parsed.value, "sampler", "sampler")
  ELSE md

pngComment(chunks, md) ==
  IF pngCommentApplies(chunks, md)
  THEN commentParsed(JSONParse(Text(chunks, "Comment")), Text(chunks, "Comment"), md)
  ELSE md

\* png.ts lines 70-77: the workflow chunk; a parse error or a TypeError inside
\* the graph parser is swallowed, what the parser had written stays
workflowParsed(parsed, md) ==
  IF parsed.kind = "throw" THEN md
  ELSE extractComfyUIMetadata(parsed.value, Null, md).metadata

pngWorkflow(chunks, md) ==
  IF Text(chunks, "workflow") = "" THEN md
  ELSE workflowParsed(JSONParse(Text(chunks, "workflow")), md)

\* Mutant: the decoder is consulted only for an empty record.
stealthAppliesWhenEmpty(md) == DOMAIN md = {}

\* png.ts line 80
stealthApplies(md) == DOMAIN md = {} \/ ~Truthy(md, "parameters")

\* parseStealthPNGMetadata(buffer): PNG.sync.read, then the decoder
stealthDecoded(stealthMetadata) ==
  IF stealthMetadata # NullResult THEN Success(stealthMetadata)
  ELSE Failure("No Stealth PNG metadata found")

parseStealthPNGMetadata(b) ==
  IF "error" \in DOMAIN b.image
    THEN Failure("Failed to parse Stealth PNG: " \o b.image.error)
  ELSE stealthDecoded(extractStealthPngMetadata(b.image).value)

\* png.ts lines 81-84
stealthMerged(md, stealthResult) ==
  IF stealthResult.success THEN ObjectAssign(md, stealthResult.data) ELSE md

\* png.ts lines 80-85
pngStealth(b, md) ==
  IF stealthApplies(md) THEN stealthMerged(md, parseStealthPNGMetadata(b)) ELSE md

\* String.prototype.indexOf(sub, from) (-1 if absent) and String.prototype.slice
indexOfFrom(s, sub, from) ==
  LET hits == { i \in (from + 1)..(Len(s) - Len(sub) + 1) : SubSeq(s, i, i + Len(sub) - 1) = sub }
  IN IF hits = {} THEN -1 ELSE (CHOOSE i \in hits : \A j \in hits : i <= j) - 1

indexOf(s, sub) == indexOfFrom(s, sub, 0)

Min(a, b) == IF a <= b THEN a ELSE b

slice(s, start, end) == SubSeq(s, start + 1, end)

\* The tag tree ExifReader.load gives: [exif, xmp, iptc], each group optional, or
\* [error] when it throws.  exif is the sequence of its [name, field] entries in
\* Object.entries order; a field is a JSON value.
exifEntries(tags) == IF "exif" \in DOMAIN tags THEN tags.exif ELSE <<>>

\* exif?.[fieldName]
exifField(tags, name) ==
  LET hits == SelectSeq(exifEntries(tags), LAMBDA e : e.name = name)
  IN IF Len(hits) = 0 THEN Undef ELSE hits[1].field

\* field?.description || field?.value || field?.text
fieldValue3(field) ==
  JsOr(JsOr(OptGet(field, "description"), OptGet(field, "value")), OptGet(field, "text"))

\* field.description || field.value
fieldValue2(field) == JsOr(OptGet(field, "description"), OptGet(field, "value"))

\* fieldValue && typeof fieldValue === 'string' && (one of the four signatures)
isParameterText(v) == v.t = "str" /\ v.v # "" /\ hasSignature(v.v)

\* metadata.parameters = text; parseA1111Parameters(text, metadata)
withParameters(md, text) == parseA1111Text(text, Put(md, "parameters", text))

\* What a tag tier leaves behind
Tags(md, data) == [metadata |-> md, exifData |-> data]

\* part_001 lines 44-58
JpegExifFields ==
  <<"UserComment", "ImageDescription", "ImageComment", "XPComment", "XPKeywords",
    "Artist", "Copyright", "Software", "DocumentName", "PageName", "HostComputer",
    "Make", "Model">>

Elements(seq) == { seq[i] : i \in 1..Len(seq) }

\* part_001 lines 66-93: every field but the standard ones
RECURSIVE jpegExtraFields(_, _, _)
jpegExtraFields(entries, md, data) ==
  IF Len(entries) = 0 THEN Tags(md, data)
  ELSE LET e == entries[1]
           fieldValue == fieldValue3(e.field)
       IN IF e.name \in Elements(JpegExifFields) THEN jpegExtraFields(Tail(entries), md, data)
          ELSE IF isParameterText(fieldValue)
            THEN Tags(withParameters(md, fieldValue.v), Put(data, e.name, e.field))
          ELSE jpegExtraFields(Tail(entries), md, Put(data, e.name, e.field))

\* part_001 lines 100-121: the standard fields, in list order
RECURSIVE jpegStandardFields(_, _, _, _)
jpegStandardFields(names, tags, md, data) ==
  IF Len(names) = 0 THEN Tags(md, data)
  ELSE LET field == exifField(tags, names[1])
           fieldValue == fieldValue2(field)
       IN IF ~JsTruthy(field) THEN jpegStandardFields(Tail(names), tags, md, data)
          ELSE IF isParameterText(fieldValue)
            THEN Tags(withParameters(md, fieldValue.v), Put(data, names[1], field))
          ELSE jpegStandardFields(Tail(names), tags, md, Put(data, names[1], field))

\* part_001 lines 125-140 and part_003 lines 247-261: the NovelAI branch
tagNovelAIApplies(tags, md) ==
  /\ ~Truthy(md, "parameters")
  /\ JsTruthy(exifField(tags, "Software"))
  /\ IsStr(fieldValue2(exifField(tags, "Software")), "NovelAI")
  /\ JsTruthy(fieldValue2(exifField(tags, "UserComment")))

tagNovelAI(tags, md) ==
  IF tagNovelAIApplies(tags, md)
  THEN Put(extractNovelAIMetadata(
             JsString(fieldValue2(exifField(tags, "UserComment"))),
             IF JsTruthy(fieldValue2(exifField(tags, "ImageDescription")))
             THEN JsString(fieldValue2(exifField(tags, "ImageDescription"))) ELSE "",
             md),
           "parameters", JsString(fieldValue2(exifField(tags, "UserComment"))))
  ELSE md

tagNovelAITier(tags, r) == Tags(tagNovelAI(tags, r.metadata), r.exifData)

\* JSON.stringify, for a string, a number and an object of at most one key
RECURSIVE JSONStringify(_)
JSONStringify(x) ==
  CASE x.t = "str" -> "\"" \o x.v \o "\""
    [] x.t = "num" -> ToString(x.v)
    [] x.t = "obj" ->
         IF DOMAIN x.f = {} THEN "{}"
         ELSE LET k == CHOOSE key \in DOMAIN x.f : TRUE
              IN "{\"" \o k \o "\":" \o JSONStringify(x.f[k]) \o "}"
    [] OTHER -> "null"

\* String.prototype.startsWith and endsWith
startsWith(s, prefix) == Len(s) >= Len(prefix) /\ SubSeq(s, 1, Len(prefix)) = prefix
endsWith(s, suffix) ==
  Len(s) >= Len(suffix) /\ SubSeq(s, Len(s) - Len(suffix) + 1, Len(s)) = suffix

\* part_001 lines 273-285: a brace-free JSON object that mentions steps and has a
\* `parameters` string ("" when the text is no such object)
xmpJsonParameters(xmpStr) ==
  IF /\ startsWith(xmpStr, "{\"parameters\":\"") /\ endsWith(xmpStr, "\"}")
     /\ includes(xmpStr, "Steps") \/ includes(xmpStr, "steps")
     /\ ~includes(slice(xmpStr, 1, Len(xmpStr) - 1), "{")
     /\ ~includes(slice(xmpStr, 1, Len(xmpStr) - 1), "}")
  THEN slice(xmpStr, Len("{\"parameters\":\""), Len(xmpStr) - 2)
  ELSE ""

\* part_001 lines 288-291: the brace-free run around "Steps: ... Sampler:", for a
\* text whose only braces are its first and last character ("" when none)
xmpPlainParameters(xmpStr) ==
  IF /\ includes(xmpStr, "Steps:") /\ includes(xmpStr, "Sampler:")
     /\ indexOf(xmpStr, "Steps:") < indexOf(xmpStr, "Sampler:")
  THEN slice(xmpStr, 1, Len(xmpStr) - 1)
  ELSE ""

\* extractFromXMPLikeText(xmpStr); "" is null
extractFromXMPLikeText(xmpStr) ==
  IF xmpJsonParameters(xmpStr) # "" THEN xmpJsonParameters(xmpStr)
  ELSE xmpPlainParameters(xmpStr)

\* part_001 lines 152-163 and part_003 lines 273-284: the text taken out of the
\* stringified XMP tree
xmpExtracted(md, xmpStr) ==
  IF /\ includes(xmpStr, "Steps:") \/ includes(xmpStr, "parameters")
     /\ extractFromXMPLikeText(xmpStr) # ""
     /\ includes(extractFromXMPLikeText(xmpStr), "Steps:")
  THEN withParameters(md, extractFromXMPLikeText(xmpStr))
  ELSE md

\* part_001 lines 143-196: XMP
jpegXmp(tags, r) ==
  IF "xmp" \notin DOMAIN tags \/ ~JsTruthy(tags.xmp) \/ Truthy(r.metadata, "parameters")
  THEN r
  ELSE Tags(xmpExtracted(r.metadata, JSONStringify(tags.xmp)),
            Put(r.exifData, "XMP", tags.xmp))

\* iptc['Caption/Abstract'] as a string, or its value || description
captionValue(iptcCaption) ==
  IF iptcCaption.t = "str" THEN iptcCaption
  ELSE JsOr(Get(iptcCaption, "value"), Get(iptcCaption, "description"))

iptcCaptioned(md, iptcCaption, value) ==
  IF JsTruthy(iptcCaption) /\ JsTruthy(value) /\ value.t = "str"
     /\ includes(value.v, "Steps:")
  THEN withParameters(md, value.v)
  ELSE md

\* part_001 lines 199-218: IPTC
jpegIptc(tags, r) ==
  IF "iptc" \notin DOMAIN tags \/ ~JsTruthy(tags.iptc) \/ Truthy(r.metadata, "parameters")
  THEN r
  ELSE Tags(iptcCaptioned(r.metadata, Get(tags.iptc, "Caption/Abstract"),
                          captionValue(Get(tags.iptc, "Caption/Abstract"))),
            Put(r.exifData, "IPTC", tags.iptc))

\* part_001 lines 96-121
jpegStandard(tags, r) ==
  IF Truthy(r.metadata, "parameters") THEN r
  ELSE jpegStandardFields(JpegExifFields, tags, r.metadata, r.exifData)

\* part_001 lines 30-223: the EXIF tier of parseJPEGMetadata
jpegExif(tags, md) ==
  IF Truthy(md, "parameters") \/ "error" \in DOMAIN tags THEN Tags(md, Null)
  ELSE jpegIptc(tags, jpegXmp(tags, tagNovelAITier(tags, jpegStandard(tags,
         jpegExtraFields(exifEntries(tags), md, EmptyMap)))))

\* extractSegmentText(segmentData): the text when it carries a signature or the
\* word "prompt", else ''
extractSegmentText(text) ==
  IF text # "" /\ (hasSignature(text) \/ includes(text, "prompt")) THEN text ELSE ""

\* appSegments[name] = content, keeping the position of a name already present
setSegment(segments, name, content) ==
  IF \E i \in 1..Len(segments) : segments[i].name = name
  THEN [i \in 1..Len(segments) |->
          IF segments[i].name = name THEN [name |-> name, content |-> content]
          ELSE segments[i]]
  ELSE Append(segments, [name |-> name, content |-> content])

\* extractJpegAppSegments(buffer): APPn and COM segments up to the start of scan;
\* a segment of the buffer is [marker, text]
RECURSIVE walkSegments(_, _)
walkSegments(segments, found) ==
  IF Len(segments) = 0 \/ segments[1].marker \in {218, 217} THEN found
  ELSE LET g == segments[1]
           content == IF g.marker = 254 THEN g.text ELSE extractSegmentText(g.text)
           name == IF g.marker = 254 THEN "COM" ELSE "APP" \o ToString(g.marker - 224)
       IN walkSegments(Tail(segments),
            IF (g.marker \in 224..239 \/ g.marker = 254) /\ content # ""
            THEN setSegment(found, name, content) ELSE found)

extractJpegAppSegments(b) ==
  IF Len(b.head) < 3 \/ b.head[1] # 255 \/ b.head[2] # 216 \/ b.head[3] # 255 THEN <<>>
  ELSE walkSegments(b.segments, <<>>)

\* part_001 lines 19-27: the first segment with a signature
RECURSIVE jpegApp(_, _)
jpegApp(appSegments, md) ==
  IF Len(appSegments) = 0 THEN md
  ELSE IF hasSignature(appSegments[1].content)
    THEN withParameters(md, appSegments[1].content)
  ELSE jpegApp(Tail(appSegments), md)

\* binarySearchForMetadata: the widths of its windows and its minimum length
ScanMinLength == 50
RegexBefore == 100
RegexAfter == 1000
BytesBefore == 200
BytesAfter == 2000
StepsBefore == 100
StepsAfter == 800

\* The start of the leftmost match of `first ... second` (the regular expressions
\* at part_001 lines 416-420 on a text whose tokens carry their values), -1 if none
matchIndex(text, first, second) ==
  LET i == indexOf(text, first)
      j == indexOfFrom(text, second, i + Len(first))
  IN IF i >= 0 /\ j >= 0 /\ ~includes(slice(text, i, j), "\n") THEN i ELSE -1

\* part_001 lines 424-448: the window around the first regular-expression match
\* ("" is null)
regexWindow(text) ==
  LET m1 == matchIndex(text, "Steps:", "Sampler:")
      m2 == matchIndex(text, "CFG scale:", "Seed:")
      m3 == indexOf(text, "Negative prompt:")
      window(m) == slice(text, Max(0, m - RegexBefore), Min(Len(text), m + RegexAfter))
      good(m) == /\ m >= 0
                 /\ includes(window(m), "Steps:")
                 /\ \/ includes(window(m), "Sampler:") \/ includes(window(m), "CFG scale:")
                    \/ includes(window(m), "Seed:")
  IN IF good(m1) THEN window(m1)
     ELSE IF good(m2) THEN window(m2)
     ELSE IF good(m3) THEN window(m3)
     ELSE ""

\* part_001 lines 451-481: the APP segments read again as raw text
RECURSIVE segmentWindow(_)
segmentWindow(segments) ==
  IF Len(segments) = 0 THEN ""
  ELSE IF /\ segments[1].marker \in 224..239
          /\ includes(segments[1].text, "Steps:")
          /\ Len(segments[1].text) > ScanMinLength
    THEN segments[1].text
  ELSE segmentWindow(Tail(segments))

\* part_001 lines 484-523: the window around the first byte pattern
BinaryPatterns ==
  <<"Steps:", "parameters", "negative_prompt", "prompt:", "Steps", "Sampler">>

bytesWindowAt(text, index) ==
  LET chunk == slice(text, Max(0, index - BytesBefore), Min(Len(text), index + BytesAfter))
      stepsIdx == indexOf(chunk, "Steps:")
      extracted == slice(chunk, Max(0, stepsIdx - StepsBefore),
                         Min(Len(chunk), stepsIdx + StepsAfter))
  IN IF includes(chunk, "Steps:") /\ Len(chunk) > ScanMinLength
        /\ Len(extracted) > ScanMinLength
     THEN extracted ELSE ""

\* The occurrences of one pattern, from index `from` on
RECURSIVE patternWindow(_, _, _)
nextWindow(text, pattern, index, window) ==
  IF index = -1 THEN ""
  ELSE IF window # "" THEN window
  ELSE patternWindow(text, pattern, index + 1)

windowAt(text, pattern, index) ==
  nextWindow(text, pattern, index, IF index = -1 THEN "" ELSE bytesWindowAt(text, index))

patternWindow(text, pattern, from) == windowAt(text, pattern, indexOfFrom(text, pattern, from))

RECURSIVE bytesWindow(_, _)
orNextPattern(window, text, patterns) ==
  IF window # "" THEN window ELSE bytesWindow(text, Tail(patterns))

bytesWindow(text, patterns) ==
  IF Len(patterns) = 0 THEN ""
  ELSE orNextPattern(patternWindow(text, patterns[1], 0), text, patterns)

\* The first of the candidates that is not null ("" is null)
firstFound(a, b, c) == IF a # "" THEN a ELSE IF b # "" THEN b ELSE c

\* The scanner without its regular-expression pass
binarySearchForMetadataBytesOnly(b, format) ==
  firstFound("",
             IF format = "jpeg" THEN segmentWindow(b.segments) ELSE "",
             bytesWindow(b.text, BinaryPatterns))

\* binarySearchForMetadata(buffer, format); "" is null
binarySearchForMetadata(b, format) ==
  firstFound(regexWindow(b.text),
             IF format = "jpeg" THEN segmentWindow(b.segments) ELSE "",
             bytesWindow(b.text, BinaryPatterns))

\* part_001 lines 228-231 and part_003 lines 328-331
scanned(md, foundText) == IF foundText # "" THEN withParameters(md, foundText) ELSE md

\* part_001 lines 226-232
jpegScan(b, md) ==
  IF Truthy(md, "parameters") THEN md
  ELSE scanned(md, binarySearchForMetadata(b, "jpeg"))

\* part_001 lines 235-257 and part_003 lines 335-356: the three ways out
tagReturn(md, data, kind) ==
  IF DOMAIN md = {} /\ data # Null /\ DOMAIN data # {}
    THEN Success(Put(md, "exifFallback", data))
  ELSE IF DOMAIN md = {} THEN Failure("No SD metadata found in " \o kind)
  ELSE Success(md)

\* part_003 lines 175-181
WebpExifFields == <<"UserComment", "ImageDescription", "ImageComment", "XPComment", "Software">>

\* part_003 lines 188-215: every field that is an object
RECURSIVE webpAllFields(_, _, _)
webpAllFields(entries, md, data) ==
  IF Len(entries) = 0 THEN Tags(md, data)
  ELSE LET e == entries[1]
           fieldValue == fieldValue3(e.field)
       IN IF ~JsTruthy(e.field) \/ e.field.t \notin {"obj", "arr"}
            THEN webpAllFields(Tail(entries), md, data)
          ELSE IF isParameterText(fieldValue)
            THEN Tags(withParameters(md, fieldValue.v), Put(data, e.name, e.field))
          ELSE webpAllFields(Tail(entries), md, Put(data, e.name, e.field))

\* part_003 lines 222-243: the standard fields, in list order
RECURSIVE webpStandardFields(_, _, _, _)
webpStandardFields(names, tags, md, data) ==
  IF Len(names) = 0 THEN Tags(md, data)
  ELSE LET field == exifField(tags, names[1])
           fieldValue == fieldValue3(field)
       IN IF ~JsTruthy(field) THEN webpStandardFields(Tail(names), tags, md, data)
          ELSE IF isParameterText(fieldValue)
            THEN Tags(withParameters(md, fieldValue.v), Put(data, names[1], field))
          ELSE webpStandardFields(Tail(names), tags, md, Put(data, names[1], field))

\* part_003 lines 288-304: the description fields of the XMP tree
XmpFields == <<"description", "Description", "dc:description", "tiff:ImageDescription">>

descValue(xmpDesc) ==
  IF xmpDesc.t = "str" THEN xmpDesc
  ELSE JsOr(Get(xmpDesc, "value"), Get(xmpDesc, "description"))

RECURSIVE webpXmpFields(_, _, _)
webpXmpFields(names, xmp, md) ==
  IF Len(names) = 0 THEN md
  ELSE IF /\ JsTruthy(Get(xmp, names[1]))
          /\ descValue(Get(xmp, names[1])).t = "str"
          /\ includes(descValue(Get(xmp, names[1])).v, "Steps:")
    THEN withParameters(md, descValue(Get(xmp, names[1])).v)
  ELSE webpXmpFields(Tail(names), xmp, md)

\* part_003 lines 286-305: the field search, when the text search found nothing
webpXmpSearched(md, xmp) ==
  IF Truthy(md, "parameters") THEN md ELSE webpXmpFields(XmpFields, xmp, md)

\* part_003 lines 264-309: XMP
webpXmp(tags, r) ==
  IF "xmp" \notin DOMAIN tags \/ ~JsTruthy(tags.xmp) \/ Truthy(r.metadata, "parameters")
  THEN r
  ELSE Tags(webpXmpSearched(xmpExtracted(r.metadata, JSONStringify(tags.xmp)), tags.xmp),
            Put(r.exifData, "XMP", tags.xmp))

\* part_003 lines 218-244
webpStandard(tags, r) ==
  IF Truthy(r.metadata, "parameters") \/ "exif" \notin DOMAIN tags THEN r
  ELSE webpStandardFields(WebpExifFields, tags, r.metadata, r.exifData)

\* part_003 lines 163-313: the EXIF tier of parseWebPMetadata
webpExif(tags, md) ==
  IF "error" \in DOMAIN tags THEN Tags(md, Null)
  ELSE webpXmp(tags, tagNovelAITier(tags, webpStandard(tags,
         webpAllFields(exifEntries(tags), md, EmptyMap))))

\* extractWebPChunkText(chunkData)
extractWebPChunkText(text) == IF hasSignature(text) THEN text ELSE ""

\* parseWebPChunks(buffer): the first EXIF or XMP chunk whose text has a signature;
\* a chunk of the buffer is [fourCC, text]
RECURSIVE walkWebPChunks(_)
walkWebPChunks(chunks) ==
  IF Len(chunks) = 0 THEN Failure("No metadata found in WebP chunks")
  ELSE IF /\ chunks[1].fourCC \in {"EXIF", "XMP "}
          /\ extractWebPChunkText(chunks[1].text) # ""
          /\ hasSignature(extractWebPChunkText(chunks[1].text))
    THEN Success(withParameters(EmptyObject, extractWebPChunkText(chunks[1].text)))
  ELSE walkWebPChunks(Tail(chunks))

parseWebPChunks(b) ==
  LET h == b.head IN
  IF \/ Len(h) < 12
     \/ <<h[1], h[2], h[3], h[4]>> # <<82, 73, 70, 70>>
     \/ <<h[9], h[10], h[11], h[12]>> # <<87, 69, 66, 80>>
  THEN Failure("Invalid WebP file")
  ELSE walkWebPChunks(b.chunks)

\* part_003 lines 318-320
chunksMerged(md, chunkResult) ==
  IF chunkResult.success THEN ObjectAssign(md, chunkResult.data) ELSE md

\* part_003 lines 316-321
webpChunks(b, md) ==
  IF Truthy(md, "parameters") THEN md ELSE chunksMerged(md, parseWebPChunks(b))

\* part_001 lines 11 and 528-530: what require('./jpeg') has
JpegExports == {"parseJPEGMetadata", "default"}

\* part_003 lines 324-332: the scanner taken from the jpeg module.  Calling a
\* name the module does not export is a TypeError.
webpScan(b, md) ==
  IF Truthy(md, "parameters") THEN Done(md)
  ELSE IF "binarySearchForMetadata" \notin JpegExports
    THEN Raised("binarySearchForMetadata is not a function", md)
  ELSE Done(scanned(md, binarySearchForMetadata(b, "webp")))

----------------------------------------------------------------------------
(* Spec: extractMetadata applied to one buffer.  pc is the position inside *)
(* the orchestrator of the buffer's container, one step per tier; ran      *)
(* lists the parsers and decoders the tiers called, in call order.         *)

MaxChunks == 2

PngHead == <<137, 80, 78, 71, 13, 10, 26, 10, 0, 0, 0, 13>>
JpegHead == <<255, 216, 255, 224, 0, 16, 74, 70, 73, 70, 0, 1>>
WebpHead == <<82, 73, 70, 70, 0, 0, 0, 0, 87, 69, 66, 80>>
WaveHead == <<82, 73, 70, 70, 0, 0, 0, 0, 87, 65, 86, 69>>
ShortHead == <<137, 80, 78, 71>>

tEXt(keyword, text) ==
  [type |-> "tEXt", keyword |-> keyword, method |-> -1, text |-> text, inflates |-> TRUE]

PngChunks ==
  { tEXt("parameters", A1111Text), tEXt("prompt", PromptMapText),
    tEXt("prompt", "plain prompt"), tEXt("Software", "NovelAI"),
    tEXt("Comment", NovelAIText), tEXt("Comment", CommentText),
    tEXt("Description", "a cat"), tEXt("workflow", WorkflowText),
    [type |-> "zTXt", keyword |-> "parameters", method |-> 0, text |-> A1111Text,
     inflates |-> TRUE],
    [type |-> "zTXt", keyword |-> "parameters", method |-> 0, text |-> A1111Text,
     inflates |-> FALSE],
    [type |-> "iTXt", keyword |-> "Comment", method |-> 0, text |-> CommentText,
     inflates |-> FALSE],
    [type |-> "IDAT", keyword |-> "", method |-> -1, text |-> "", inflates |-> TRUE],
    [type |-> "IEND", keyword |-> "", method |-> -1, text |-> "", inflates |-> TRUE] }

\* What PNG.sync.read makes of the buffer: an error, or an image with or without
\* a stealth envelope
NoImage == [error |-> "Invalid file signature"]

PngImages ==
  { NoImage, StealthPng(MaxHeight, 1, <<0, 0, 0, 8>>, 1, "full") }
  \cup { StealthPng(MaxHeight, 0, <<0, 0, 0, 8>>, payload, "full") : payload \in 1..3 }

Field(k, v) == Obj([f \in {k} |-> v])

NoTags == [error |-> "Invalid image format"]

TagTrees ==
  { NoTags,
    [exif |-> <<>>],
    [exif |-> << [name |-> "Make", field |-> Field("description", Str("Canon"))] >>],
    [exif |-> << [name |-> "Orientation", field |-> Num(1)],
                 [name |-> "UserComment", field |-> Field("value", Str(A1111Text))] >>],
    [exif |-> << [name |-> "Software", field |-> Field("description", Str("NovelAI"))],
                 [name |-> "UserComment", field |-> Field("value", Str(NovelAIText))],
                 [name |-> "ImageDescription", field |-> Field("description", Str("a cat"))] >>],
    [exif |-> << [name |-> "CustomTag", field |-> Field("text", Str(CommentText))] >>],
    [xmp |-> Field("title", Str("no parameters here"))],
    [xmp |-> Field("description", Str(SeedText))],
    [xmp |-> Field("parameters", Str(CommentText))],
    [iptc |-> Field("Caption/Abstract", Str(CommentText))] }

JpegSegments ==
  { <<>>,
    << [marker |-> 224, text |-> "JFIF"], [marker |-> 225, text |-> A1111Text] >>,
    << [marker |-> 254, text |-> "a comment"], [marker |-> 218, text |-> ""],
       [marker |-> 225, text |-> A1111Text] >>,
    << [marker |-> 219, text |-> ""], [marker |-> 225, text |-> "prompt"],
       [marker |-> 217, text |-> ""] >> }

WebpChunkLists ==
  { <<>>,
    << [fourCC |-> "VP8 ", text |-> A1111Text], [fourCC |-> "XMP ", text |-> CommentText] >>,
    << [fourCC |-> "EXIF", text |-> "Canon"] >> }

ScanTexts == {"", ScanText, "Steps: 20"}

Buffer(head, chunks, image, segments, tags, text) ==
  [head |-> head, chunks |-> chunks, image |-> image, segments |-> segments,
   tags |-> tags, text |-> text]

Init ==
  /\ \/ \E head \in {<<>>, ShortHead, WaveHead} :
          buffer = Buffer(head, <<>>, NoImage, <<>>, NoTags, "")
     \/ \E n \in 0..MaxChunks : \E chunks \in [1..n -> PngChunks] : \E image \in PngImages :
          buffer = Buffer(PngHead, chunks, image, <<>>, NoTags, "")
     \/ \E segments \in JpegSegments : \E tags \in TagTrees : \E text \in ScanTexts :
          buffer = Buffer(JpegHead, <<>>, NoImage, segments, tags, text)
     \/ \E chunks \in WebpChunkLists : \E tags \in TagTrees : \E text \in ScanTexts :
          buffer = Buffer(WebpHead, chunks, NoImage, <<>>, tags, text)
  /\ pc = "start"
  /\ metadata = EmptyObject
  /\ textChunks = EmptyObject
  /\ exifData = Null
  /\ result = Null
  /\ ran = <<>>
  /\ parameters = Idle /\ workflow = Idle /\ png = Idle

Inputs == <<buffer, parameters, workflow, png>>

\* ran, after a tier that called the named parser when cond holds
Called(cond, name) == IF cond THEN Append(ran, name) ELSE ran

\* metadata and exifData as a tag tier leaves them
TagsLeft(r) == metadata' = r.metadata /\ exifData' = r.exifData

\* part_003 lines 358-363: what the scanner call throws is the result
ScanLeft(r) ==
  /\ metadata' = r.metadata
  /\ IF r.kind = "throw"
       THEN pc' = "done" /\ result' = Failure(r.message)
       ELSE pc' = "webp:return" /\ result' = result

\* extractor.ts lines 16-55, up to the call of the container's orchestrator
ExtractMetadata ==
  /\ pc = "start"
  /\ IF Len(buffer.head) = 0
       THEN pc' = "done" /\ result' = Failure("Empty buffer")
     ELSE IF detectImageFormat(buffer) = ""
       THEN pc' = "done" /\ result' = Failure("Unsupported image format")
     ELSE /\ pc' = CASE detectImageFormat(buffer) = "png"  -> "png:primary"
                     [] detectImageFormat(buffer) = "jpeg" -> "jpeg:segments"
                     [] detectImageFormat(buffer) = "webp" -> "webp:tags"
          /\ result' = result
  /\ UNCHANGED <<Inputs, metadata, textChunks, exifData, ran>>

\* png.ts lines 17-33
PngPrimary ==
  /\ pc = "png:primary"
  /\ textChunks' = extractPngTextChunks(buffer)
  /\ metadata' = pngPrimary(textChunks')
  /\ ran' = IF Text(textChunks', "parameters") # "" THEN Append(ran, "a1111")
            ELSE Called(/\ Text(textChunks', "prompt") # ""
                        /\ JSONParse(Text(textChunks', "prompt")).kind = "return", "tool-c")
  /\ pc' = "png:novelai"
  /\ UNCHANGED <<Inputs, result, exifData>>

\* png.ts lines 36-42
PngNovelAI ==
  /\ pc = "png:novelai"
  /\ metadata' = pngNovelAI(textChunks, metadata)
  /\ ran' = Called(pngNovelAIApplies(textChunks), "tool-b")
  /\ pc' = "png:description"
  /\ UNCHANGED <<Inputs, result, textChunks, exifData>>

\* png.ts lines 45-47
PngDescription ==
  /\ pc = "png:description"
  /\ metadata' = pngDescription(textChunks, metadata)
  /\ pc' = "png:comment"
  /\ UNCHANGED <<Inputs, result, textChunks, exifData, ran>>

\* png.ts lines 50-67
PngComment ==
  /\ pc = "png:comment"
  /\ metadata' = pngComment(textChunks, metadata)
  /\ ran' = Called(pngCommentApplies(textChunks, metadata), "comment")
  /\ pc' = "png:workflow"
  /\ UNCHANGED <<Inputs, result, textChunks, exifData>>

\* png.ts lines 70-77
PngWorkflow ==
  /\ pc = "png:workflow"
  /\ metadata' = pngWorkflow(textChunks, metadata)
  /\ ran' = Called(/\ Text(textChunks, "workflow") # ""
                   /\ JSONParse(Text(textChunks, "workflow")).kind = "return", "tool-c")
  /\ pc' = "png:stealth"
  /\ UNCHANGED <<Inputs, result, textChunks, exifData>>

\* png.ts lines 80-85
PngStealth ==
  /\ pc = "png:stealth"
  /\ metadata' = pngStealth(buffer, metadata)
  /\ ran' = Called(stealthApplies(metadata), "stego")
  /\ pc' = "png:return"
  /\ UNCHANGED <<Inputs, result, textChunks, exifData>>

\* png.ts lines 87-90
PngReturn ==
  /\ pc = "png:return"
  /\ result' = Success(metadata)
  /\ pc' = "done"
  /\ UNCHANGED <<Inputs, metadata, textChunks, exifData, ran>>

\* part_001 lines 16-27
JpegSegmentTier ==
  /\ pc = "jpeg:segments"
  /\ metadata' = jpegApp(extractJpegAppSegments(buffer), metadata)
  /\ ran' = Called(Truthy(metadata', "parameters"), "a1111")
  /\ pc' = "jpeg:tags"
  /\ UNCHANGED <<Inputs, result, textChunks, exifData>>

\* part_001 lines 30-223
JpegTagTier ==
  /\ pc = "jpeg:tags"
  /\ TagsLeft(jpegExif(buffer.tags, metadata))
  /\ ran' = Called(~Truthy(metadata, "parameters"), "tags")
  /\ pc' = "jpeg:scan"
  /\ UNCHANGED <<Inputs, result, textChunks>>

\* part_001 lines 226-232
JpegScan ==
  /\ pc = "jpeg:scan"
  /\ metadata' = jpegScan(buffer, metadata)
  /\ ran' = Called(~Truthy(metadata, "parameters"), "scanner")
  /\ pc' = "jpeg:return"
  /\ UNCHANGED <<Inputs, result, textChunks, exifData>>

\* part_001 lines 235-257
JpegReturn ==
  /\ pc = "jpeg:return"
  /\ result' = tagReturn(metadata, exifData, "JPEG")
  /\ metadata' = IF result'.success THEN result'.data ELSE metadata
  /\ pc' = "done"
  /\ UNCHANGED <<Inputs, textChunks, exifData, ran>>

\* part_003 lines 160-313
WebpTagTier ==
  /\ pc = "webp:tags"
  /\ TagsLeft(webpExif(buffer.tags, metadata))
  /\ ran' = Append(ran, "tags")
  /\ pc' = "webp:chunks"
  /\ UNCHANGED <<Inputs, result, textChunks>>

\* part_003 lines 316-321
WebpChunkTier ==
  /\ pc = "webp:chunks"
  /\ metadata' = webpChunks(buffer, metadata)
  /\ ran' = Called(~Truthy(metadata, "parameters"), "chunks")
  /\ pc' = "webp:scan"
  /\ UNCHANGED <<Inputs, result, textChunks, exifData>>

\* part_003 lines 324-332, and the catch at lines 358-363 for what they throw
WebpScan ==
  /\ pc = "webp:scan"
  /\ ScanLeft(webpScan(buffer, metadata))
  /\ ran' = Called(/\ ~Truthy(metadata, "parameters")
                   /\ "binarySearchForMetadata" \in JpegExports, "scanner")
  /\ UNCHANGED <<Inputs, textChunks, exifData>>

\* part_003 lines 335-356
WebpReturn ==
  /\ pc = "webp:return"
  /\ result' = tagReturn(metadata, exifData, "WebP")
  /\ metadata' = IF result'.success THEN result'.data ELSE metadata
  /\ pc' = "done"
  /\ UNCHANGED <<Inputs, textChunks, exifData, ran>>

Next ==
  \/ ExtractMetadata
  \/ PngPrimary \/ PngNovelAI \/ PngDescription \/ PngComment \/ PngWorkflow
  \/ PngStealth \/ PngReturn
  \/ JpegSegmentTier \/ JpegTagTier \/ JpegScan \/ JpegReturn
  \/ WebpTagTier \/ WebpChunkTier \/ WebpScan \/ WebpReturn

Spec == Init /\ [][Next]_vars

\* The format extractMetadata dispatched on
Format == detectImageFormat(buffer)

\* C1: extractMetadata always returns a ParseResult, and when every tier has been
\* tried and nothing was found (the record has no field) the result is a failure
\* with a non-empty error string.
C1_FailureWhenNothingFound ==
  pc = "done" =>
    /\ result # Null /\ "success" \in DOMAIN result
    /\ DOMAIN metadata = {} =>
         /\ ~result.success
         /\ "error" \in DOMAIN result /\ result.error # ""

\* C2: a success is never empty: when extractMetadata returns success = true, data
\* has `parameters`, or another field, or `exifFallback`.
C2_NoEmptySuccess ==
  (pc = "done" /\ result.success) => DOMAIN result.data # {}

\* The file has a tEXt chunk `parameters` that the chunk walker reaches
C3_HasParametersChunk ==
  /\ Format = "png"
  /\ \E i \in 1..Len(buffer.chunks) :
       /\ buffer.chunks[i] = tEXt("parameters", A1111Text)
       /\ \A j \in 1..(i - 1) : buffer.chunks[j].type # "IEND"

\* C3: a PNG with a plain tEXt chunk `parameters` holding a well-formed A1111
\* string gives success with prompt, steps, sampler, cfgScale and seed equal to
\* the values of that string and `parameters` equal to the chunk text, whatever
\* other text chunks the file carries.
C3_ParametersChunkRecovered ==
  (pc = "done" /\ C3_HasParametersChunk) =>
    /\ result.success
    /\ {"prompt", "steps", "sampler", "cfgScale", "seed", "parameters"}
         \subseteq DOMAIN result.data
    /\ result.data.prompt = RenderParts(A1111Lines[1])
    /\ result.data.steps = A1111Lines[3][1].value
    /\ result.data.sampler = A1111Lines[3][2].value
    /\ result.data.cfgScale = A1111Lines[3][3].value
    /\ result.data.seed = A1111Lines[3][4].value
    /\ result.data.parameters = A1111Text

\* C6: merge policy: once a tier has set a field of the record, no later tier
\* changes or clears it, the steganographic overlay excepted.
C6_TierKeepsFields ==
  pc # "png:stealth" =>
    \A f \in DOMAIN metadata : f \in DOMAIN metadata' /\ metadata'[f] = metadata[f]

C6_EarlierFieldsKept == [][C6_TierKeepsFields]_vars

\* The step of the steganographic tier
C7_StegoStep ==
  pc = "png:stealth" =>
    LET run == DOMAIN metadata = {} \/ "parameters" \notin DOMAIN metadata
        decoded == parseStealthPNGMetadata(buffer)
    IN /\ run => ran' = Append(ran, "stego")
       /\ ~run => ran' = ran /\ metadata' = metadata
       /\ (run /\ ~decoded.success) => metadata' = metadata
       /\ (run /\ decoded.success) =>
            /\ DOMAIN metadata' = DOMAIN metadata \cup DOMAIN decoded.data
            /\ \A k \in DOMAIN decoded.data : metadata'[k] = decoded.data[k]
            /\ \A k \in DOMAIN metadata \ DOMAIN decoded.data : metadata'[k] = metadata[k]

\* C7: in the PNG path the steganographic decoder is run exactly when, after the
\* text-chunk tiers, the record is empty or has no `parameters`; when it yields a
\* record every key it carries overwrites the record's value and every other key
\* is left unchanged; it is never run when `parameters` is present.
C7_StegoWhenNoParameters == [][C7_StegoStep]_vars

\* The overlay has run on a record the prompt chunk had filled: the decoded
\* prompt and seed replaced the chunk's, the chunk's steps stayed.
C7_Witness ==
  /\ pc = "png:return"
  /\ Text(textChunks, "prompt") = PromptMapText
  /\ ran = <<"tool-c", "stego">>
  /\ parseStealthPNGMetadata(buffer).success
  /\ metadata.prompt = "stealth prompt" /\ metadata.seed = "7"
  /\ metadata.steps = "30"

\* The step that follows the structured attempts of each container
C8_ScanStep ==
  pc \in {"png:return", "jpeg:scan", "webp:scan"} =>
    /\ DOMAIN metadata = {} =>
         /\ ran' = Append(ran, "scanner")
         /\ metadata' = scanned(metadata, binarySearchForMetadata(buffer, Format))
    /\ DOMAIN metadata # {} => ran' = ran

\* C8: for each container, when the structured attempts leave the record empty
\* the heuristic scanner is run over the buffer and the A1111 parser on the window
\* it recovers, before the exifFallback or failure outcome; the scanner is not run
\* when the record is not empty.
C8_ScannerWhenEmpty == [][C8_ScanStep]_vars

\* C9: for JPEG and WebP, a record still empty after every tier with at least one
\* raw tag field collected gives success with `exifFallback` and no other field;
\* `exifFallback` never comes with a structured field.
C9_FallbackOnly ==
  (pc = "done" /\ Format \in {"jpeg", "webp"}) =>
    /\ (DOMAIN metadata \subseteq {"exifFallback"} /\ exifData # Null /\ DOMAIN exifData # {})
         => result.success /\ DOMAIN result.data = {"exifFallback"}
    /\ (result.success /\ "exifFallback" \in DOMAIN result.data)
         => DOMAIN result.data = {"exifFallback"}

----------------------------------------------------------------------------
(* SpecDetect: extractMetadata up to its dispatch, for the three heads     *)
(* with one bit of one byte flipped and for the heads cut or padded to     *)
(* every length up to MaxHead.                                             *)

MaxHead == 13

\* byte b with bit j flipped
FlipBit(b, j) == IF (b \div 2^j) % 2 = 1 THEN b - 2^j ELSE b + 2^j

Heads == {PngHead, JpegHead, WebpHead}

\* head h cut to its first k bytes, or padded with zero bytes to k bytes
Resized(h, k) == [i \in 1..k |-> IF i <= Len(h) THEN h[i] ELSE 0]

DetectHeads ==
  { [h EXCEPT ![i] = FlipBit(h[i], j)] : h \in Heads, i \in 1..12, j \in 0..7 }
    \cup { Resized(h, k) : h \in Heads, k \in 0..MaxHead }

InitDetect ==
  /\ \E head \in DetectHeads : buffer = Buffer(head, <<>>, NoImage, <<>>, NoTags, "")
  /\ pc = "start"
  /\ metadata = EmptyObject
  /\ textChunks = EmptyObject
  /\ exifData = Null
  /\ result = Null
  /\ ran = <<>>
  /\ parameters = Idle /\ workflow = Idle /\ png = Idle

NextDetect == ExtractMetadata

SpecDetect == InitDetect /\ [][NextDetect]_vars

\* The bytes the comments of detectImageFormat give as each format's signature,
\* by 1-based position: PNG 89 50 4E 47, JPEG FF D8 FF, WebP RIFF....WEBP
SignatureOf(format) ==
  CASE format = "png" -> (1 :> 137 @@ 2 :> 80 @@ 3 :> 78 @@ 4 :> 71)
    [] format = "jpeg" -> (1 :> 255 @@ 2 :> 216 @@ 3 :> 255)
    [] format = "webp" -> (1 :> 82 @@ 2 :> 73 @@ 3 :> 70 @@ 4 :> 70
                           @@ 9 :> 87 @@ 10 :> 69 @@ 11 :> 66 @@ 12 :> 80)

----------------------------------------------------------------------------
(* The PNG chunk walker on the bytes of the file (src/src/png.ts lines      *)
(* 130-244).  A buffer is the sequence of its bytes; offsets are 0-based as *)
(* in the source.                                                           *)

\* buffer.readUInt32BE(offset)
readUInt32BE(buf, offset) ==
  buf[offset + 1] * 16777216 + buf[offset + 2] * 65536 + buf[offset + 3] * 256
    + buf[offset + 4]

\* buffer.slice(start, end): end is clamped to the length of the buffer
bufferSlice(buf, start, end) == SubSeq(buf, start + 1, Min(end, Len(buf)))

\* chunkData.indexOf(value, from), -1 if absent
indexOfByte(data, value, from) ==
  LET hits == { i \in from..(Len(data) - 1) : data[i + 1] = value }
  IN IF hits = {} THEN -1 ELSE CHOOSE i \in hits : \A j \in hits : i <= j

\* chunkData[i]: -1 stands for undefined past the end
byteAt(data, i) == IF i < Len(data) THEN data[i + 1] ELSE -1

Letters == "abcdefghijklmnopqrstuvwxyz"

\* toString('latin1'): every byte is one character
latin1Char(b) ==
  IF b \in 97..122 THEN SubSeq(Letters, b - 96, b - 96) ELSE "<" \o ToString(b) \o ">"

\* toString('utf8') of the bytes the model uses: ASCII bytes are their characters,
\* a lone byte of 128 or more is the replacement character
utf8Char(b) == IF b < 128 THEN latin1Char(b) ELSE "<?>"

RECURSIVE latin1String(_)
latin1String(bytes) ==
  IF Len(bytes) = 0 THEN "" ELSE latin1Char(bytes[1]) \o latin1String(Tail(bytes))

RECURSIVE utf8String(_)
utf8String(bytes) ==
  IF Len(bytes) = 0 THEN "" ELSE utf8Char(bytes[1]) \o utf8String(Tail(bytes))

\* buffer.toString('ascii', offset, offset + 4) of a chunk type
chunkType(bytes) ==
  CASE bytes = <<116, 69, 88, 116>> -> "tEXt"
    [] bytes = <<105, 84, 88, 116>> -> "iTXt"
    [] bytes = <<122, 84, 88, 116>> -> "zTXt"
    [] bytes = <<73, 69, 78, 68>> -> "IEND"
    [] OTHER -> "IDAT"

RECURSIVE SumOf(_)
SumOf(bytes) == IF Len(bytes) = 0 THEN 0 ELSE bytes[1] + SumOf(Tail(bytes))

\* A compressed stream is its two header bytes, the bytes it holds and a check
\* byte: the zlib header is 78 9C, the gzip header 1F 8B.  Decompression throws
\* on another header, on a stream cut short and on a wrong check byte.
decompress(header, bytes) ==
  IF /\ Len(bytes) >= 3
     /\ SubSeq(bytes, 1, 2) = header
     /\ bytes[Len(bytes)] = SumOf(SubSeq(bytes, 3, Len(bytes) - 1)) % 256
  THEN Return(SubSeq(bytes, 3, Len(bytes) - 1))
  ELSE Throw("incorrect header check")

\* zlib.inflateSync and zlib.gunzipSync
inflateSync(bytes) == decompress(<<120, 156>>, bytes)
gunzipSync(bytes) == decompress(<<31, 139>>, bytes)

\* png.ts lines 173-180
parseTextChunk(chunkData, chunks) ==
  LET nullIndex == indexOfByte(chunkData, 0, 0) IN
  IF nullIndex # -1
  THEN Put(chunks, latin1String(SubSeq(chunkData, 1, nullIndex)),
           utf8String(SubSeq(chunkData, nullIndex + 2, Len(chunkData))))
  ELSE chunks

\* png.ts lines 205-217: the text of an iTXt chunk from position pos
internationalText(chunkData, compressionFlag, compressionMethod, pos, decompressed) ==
  IF compressionFlag = 1 /\ compressionMethod = 0 /\ decompressed.kind = "return"
  THEN utf8String(decompressed.value)
  ELSE utf8String(SubSeq(chunkData, pos + 1, Len(chunkData)))

\* png.ts lines 198-220, from the end of the language tag on
translatedKeyword(chunkData, chunks, nullIndex, transEnd) ==
  IF transEnd = -1 THEN chunks
  ELSE Put(chunks, latin1String(SubSeq(chunkData, 1, nullIndex)),
           internationalText(chunkData, byteAt(chunkData, nullIndex + 1),
                             byteAt(chunkData, nullIndex + 2), transEnd + 1,
                             gunzipSync(SubSeq(chunkData, transEnd + 2, Len(chunkData)))))

languageTag(chunkData, chunks, nullIndex, langEnd) ==
  IF langEnd = -1 THEN chunks
  ELSE translatedKeyword(chunkData, chunks, nullIndex, indexOfByte(chunkData, 0, langEnd + 1))

internationalKeyword(chunkData, chunks, nullIndex) ==
  IF nullIndex = -1 THEN chunks
  ELSE languageTag(chunkData, chunks, nullIndex, indexOfByte(chunkData, 0, nullIndex + 3))

\* png.ts lines 185-221
parseInternationalTextChunk(chunkData, chunks) ==
  internationalKeyword(chunkData, chunks, indexOfByte(chunkData, 0, 0))

compressedText(chunks, keyword, decompressed) ==
  IF decompressed.kind = "return" THEN Put(chunks, keyword, utf8String(decompressed.value))
  ELSE chunks

compressedKeyword(chunkData, chunks, nullIndex) ==
  IF nullIndex = -1 THEN chunks
  ELSE IF byteAt(chunkData, nullIndex + 1) = 0
    THEN compressedText(chunks, latin1String(SubSeq(chunkData, 1, nullIndex)),
                        inflateSync(SubSeq(chunkData, nullIndex + 3, Len(chunkData))))
  ELSE chunks

\* png.ts lines 226-244
parseCompressedTextChunk(chunkData, chunks) ==
  compressedKeyword(chunkData, chunks, indexOfByte(chunkData, 0, 0))

\* png.ts lines 151-159
processChunk(type, chunkData, chunks) ==
  CASE type = "tEXt" -> parseTextChunk(chunkData, chunks)
    [] type = "iTXt" -> parseInternationalTextChunk(chunkData, chunks)
    [] type = "zTXt" -> parseCompressedTextChunk(chunkData, chunks)
    [] OTHER -> chunks

\* png.ts lines 136-160: the loop, from the chunk at offset.  The loop condition
\* keeps every read inside the buffer, so nothing in the try block throws.
RECURSIVE walkBytes(_, _, _)
walkBytes(buf, offset, chunks) ==
  IF ~(offset < Len(buf) - 12) THEN chunks
  ELSE IF chunkType(bufferSlice(buf, offset + 4, offset + 8)) = "IEND" THEN chunks
  ELSE walkBytes(buf, offset + 8 + readUInt32BE(buf, offset) + 4,
         processChunk(chunkType(bufferSlice(buf, offset + 4, offset + 8)),
                      bufferSlice(buf, offset + 8, offset + 8 + readUInt32BE(buf, offset)),
                      chunks))

\* extractPngTextChunks(buffer) on the bytes of the file
extractPngTextChunksOfBytes(buf) == walkBytes(buf, 8, EmptyObject)

----------------------------------------------------------------------------
(* SpecChunks: extractPngTextChunks on the bytes of files of up to         *)
(* MaxFileChunks chunks.  png describes how the file was put together: its *)
(* chunks, whether it ends with IEND, and how many bytes were cut off its  *)
(* end; buffer holds the bytes.                                            *)

MaxFileChunks == 2
MaxCut == 5

Keywords == {<<107>>, <<112>>}
LogicalTexts == {<<97, 98, 99, 100>>, <<119, 120, 121, 122>>}

\* A stream of the given header holding the bytes
Stream(header, bytes) == header \o bytes \o <<SumOf(bytes) % 256>>
Zlib(bytes) == Stream(<<120, 156>>, bytes)
Gzip(bytes) == Stream(<<31, 139>>, bytes)

\* The forms of a chunk: the well-formed ones of the PNG format (text, zTXt
\* and iTXt with compression method 0, which is zlib), an iTXt holding a gzip
\* stream, and the malformed ones (no NUL separator, no language tag end, a
\* stream that does not decompress).
ChunkForms ==
  { <<"tEXt", "plain">>, <<"tEXt", "nonul">>, <<"zTXt", "zlib">>, <<"zTXt", "broken">>,
    <<"iTXt", "zlib">>, <<"iTXt", "gzip">>, <<"iTXt", "plain">>, <<"iTXt", "nolang">> }

FileChunks ==
  [type : {"IDAT"}, form : {"plain"}, keyword : {<<107>>}, text : {<<97, 98, 99, 100>>},
   over : {FALSE}]
  \cup { c \in [type : {"tEXt", "zTXt", "iTXt"},
                form : {"plain", "nonul", "zlib", "gzip", "broken", "nolang"},
                keyword : Keywords, text : LogicalTexts, over : BOOLEAN] :
           /\ <<c.type, c.form>> \in ChunkForms
           /\ c.keyword = <<112>> => c.text = <<97, 98, 99, 100>> }

\* The payload of a chunk
Payload(c) ==
  CASE c.type = "IDAT" -> <<1, 2, 3, 4, 5>>
    [] c.type = "tEXt" /\ c.form = "plain" -> c.keyword \o <<0>> \o c.text
    [] c.type = "tEXt" /\ c.form = "nonul" -> c.keyword \o c.text
    [] c.type = "zTXt" /\ c.form = "zlib" -> c.keyword \o <<0, 0>> \o Zlib(c.text)
    [] c.type = "zTXt" /\ c.form = "broken" -> c.keyword \o <<0, 0>> \o c.text
    [] c.type = "iTXt" /\ c.form = "zlib" -> c.keyword \o <<0, 1, 0, 0, 0>> \o Zlib(c.text)
    [] c.type = "iTXt" /\ c.form = "gzip" -> c.keyword \o <<0, 1, 0, 0, 0>> \o Gzip(c.text)
    [] c.type = "iTXt" /\ c.form = "plain" -> c.keyword \o <<0, 0, 0, 0, 0>> \o c.text
    [] OTHER -> c.keyword \o <<0, 0, 0>> \o c.text

TypeBytes(type) ==
  CASE type = "tEXt" -> <<116, 69, 88, 116>>
    [] type = "iTXt" -> <<105, 84, 88, 116>>
    [] type = "zTXt" -> <<122, 84, 88, 116>>
    [] type = "IEND" -> <<73, 69, 78, 68>>
    [] OTHER -> <<73, 68, 65, 84>>

BigEndian32(n) == <<0, 0, n \div 256, n % 256>>

\* length, type, payload and four bytes of CRC; a chunk marked over declares 256
\* bytes more than it holds
ChunkBytes(c) ==
  BigEndian32(Len(Payload(c)) + (IF c.over THEN 256 ELSE 0)) \o TypeBytes(c.type)
    \o Payload(c) \o <<201, 202, 203, 204>>

IENDBytes == BigEndian32(0) \o TypeBytes("IEND") \o <<174, 66, 96, 130>>

RECURSIVE ChunksBytes(_)
ChunksBytes(chunks) ==
  IF Len(chunks) = 0 THEN <<>> ELSE ChunkBytes(chunks[1]) \o ChunksBytes(Tail(chunks))

FileBytes(file) ==
  LET full == SubSeq(PngHead, 1, 8) \o ChunksBytes(file.chunks)
                \o (IF file.end THEN IENDBytes ELSE <<>>)
  IN SubSeq(full, 1, Len(full) - file.cut)

InitChunks ==
  /\ \E n \in 0..MaxFileChunks : \E chunks \in [1..n -> FileChunks] :
       \E end \in BOOLEAN : \E cut \in 0..MaxCut :
         /\ end => cut = 0
         /\ png = [chunks |-> chunks, end |-> end, cut |-> cut]
  /\ buffer = FileBytes(png)
  /\ pc = "start"
  /\ textChunks = EmptyObject
  /\ ran = <<>>
  /\ metadata = Idle /\ result = Idle /\ exifData = Idle
  /\ parameters = Idle /\ workflow = Idle

\* const textChunks = extractPngTextChunks(buffer)
ExtractPngTextChunks ==
  /\ pc = "start"
  /\ textChunks' = extractPngTextChunksOfBytes(buffer)
  /\ pc' = "done"
  /\ ran' = Append(ran, "chunks")
  /\ UNCHANGED <<buffer, png, metadata, result, exifData, parameters, workflow>>

NextChunks == ExtractPngTextChunks

SpecChunks == InitChunks /\ [][NextChunks]_vars

\* The file as it was put together: the 0-based offset of its i-th chunk, and
\* whether the declared length of that chunk runs past the end of the buffer.
RECURSIVE ChunkStart(_)
ChunkStart(i) == IF i = 1 THEN 8 ELSE ChunkStart(i - 1) + Len(ChunkBytes(png.chunks[i - 1]))

Declared(i) == readUInt32BE(ChunkBytes(png.chunks[i]), 0)

Truncated(i) == ChunkStart(i) + 8 + Declared(i) > Len(buffer)

IsTextChunk(i) == png.chunks[i].type \in {"tEXt", "zTXt", "iTXt"}

\* Malformed: no NUL separator where the format has one, or truncated
Malformed(i) == png.chunks[i].form \in {"nonul", "nolang"} \/ Truncated(i)

\* Well-formed: a text chunk of the PNG format, whole
WellFormed(i) == IsTextChunk(i) /\ png.chunks[i].form \in {"plain", "zlib"} /\ ~Truncated(i)

\* The walk reaches chunk i: no chunk before it is truncated
Reached(i) == \A j \in 1..(i - 1) : ~Truncated(j)

KeywordOf(i) == latin1String(png.chunks[i].keyword)
LogicalText(i) == utf8String(png.chunks[i].text)

\* The well-formed chunks of keyword K the walk reaches
WellFormedOf(K) ==
  { i \in 1..Len(png.chunks) : WellFormed(i) /\ Reached(i) /\ KeywordOf(i) = K }

Last(S) == CHOOSE i \in S : \A j \in S : j <= i

\* C13: a malformed chunk only stops further walking: every keyword->text entry
\* collected from the chunks before it is still in the returned map, and when a
\* keyword occurs in several well-formed chunks the returned text is that of the
\* last one.  (An iTXt chunk holding a gzip stream is neither well-formed nor
\* malformed in the sense of the claim; keywords it follows are left out.)
C13_EntriesKept ==
  pc = "done" =>
    \A K \in { KeywordOf(i) : i \in 1..Len(png.chunks) } :
      (/\ WellFormedOf(K) # {}
       /\ \A i \in 1..Len(png.chunks) :
            png.chunks[i].form = "gzip" /\ KeywordOf(i) = K => i < Last(WellFormedOf(K)))
      => /\ Has(textChunks, K)
         /\ textChunks[K] = LogicalText(Last(WellFormedOf(K)))

\* C14: the walker never adds an entry for a malformed text chunk (no NUL
\* separator, or a declared length that runs past the end of the buffer): every
\* keyword of the returned map is the keyword, the payload bytes before the first
\* NUL, of a text chunk of the file that is not malformed.
C14_MalformedDropped ==
  pc = "done" =>
    \A K \in DOMAIN textChunks :
      \E i \in 1..Len(png.chunks) : IsTextChunk(i) /\ ~Malformed(i) /\ KeywordOf(i) = K

\* C15: a zTXt chunk and an iTXt chunk with compression flag 1 and method 0 that
\* carry the same logical text under the same keyword decode to the same text:
\* whichever of the two is the only chunk of its keyword, whole and reached, the
\* map holds the logical text under that keyword.
C15_SameText ==
  pc = "done" =>
    \A i \in 1..Len(png.chunks) :
      (/\ png.chunks[i].type \in {"zTXt", "iTXt"} /\ png.chunks[i].form = "zlib"
       /\ WellFormed(i) /\ Reached(i)
       /\ \A j \in 1..Len(png.chunks) : KeywordOf(j) = KeywordOf(i) => j = i)
      => Has(textChunks, KeywordOf(i)) /\ textChunks[KeywordOf(i)] = LogicalText(i)

----------------------------------------------------------------------------
(* SpecPngTiers: extractMetadata on PNG files that carry up to one chunk   *)
(* for each tier of parsePNGMetadata, so that a tier meets what the tiers  *)
(* before it have set.                                                     *)

PrimaryChunks ==
  { <<>>, <<tEXt("parameters", A1111Text)>>, <<tEXt("prompt", "plain prompt")>>,
    <<tEXt("prompt", PromptMapText)>> }
SoftwareChunks == { <<>>, <<tEXt("Software", "NovelAI")>> }
CommentChunks == { <<>>, <<tEXt("Comment", NovelAIText)>>, <<tEXt("Comment", CommentText)>> }
DescriptionChunks == { <<>>, <<tEXt("Description", "a cat")>> }
WorkflowChunks == { <<>>, <<tEXt("workflow", WorkflowText)>> }

TierChunkLists ==
  { a \o b \o c \o d \o e : a \in PrimaryChunks, b \in SoftwareChunks, c \in CommentChunks,
                            d \in DescriptionChunks, e \in WorkflowChunks }

InitPngTiers ==
  /\ \E chunks \in TierChunkLists : \E image \in PngImages :
       buffer = Buffer(PngHead, chunks, image, <<>>, NoTags, "")
  /\ pc = "start"
  /\ metadata = EmptyObject
  /\ textChunks = EmptyObject
  /\ exifData = Null
  /\ result = Null
  /\ ran = <<>>
  /\ parameters = Idle /\ workflow = Idle /\ png = Idle

NextPngTiers ==
  \/ ExtractMetadata
  \/ PngPrimary \/ PngNovelAI \/ PngDescription \/ PngComment \/ PngWorkflow
  \/ PngStealth \/ PngReturn

SpecPngTiers == InitPngTiers /\ [][NextPngTiers]_vars

C16_ToolBStep ==
  pc = "png:novelai" /\ Text(textChunks, "Software") = "NovelAI" =>
    \A f \in {"prompt", "negativePrompt"} :
      Truthy(metadata, f) => Has(metadata', f) /\ metadata'[f] = metadata[f]

\* C16: in the PNG path, when the software field is `NovelAI` and prompt or
\* negativePrompt were already set by an earlier tier, the Tool-B processing of
\* the Comment/Description chunks leaves the already-set prompt and
\* negativePrompt as they were.
C16_ToolBKeepsPrompts == [][C16_ToolBStep]_vars

----------------------------------------------------------------------------
(* SpecTags: extractMetadata on JPEG and WebP files whose metadata is in   *)
(* the EXIF tag tree alone: up to MaxFields fields, in every order the     *)
(* tree can list them, several of which may hold parameter text.           *)

MaxFields == 3

TagNames == {"UserComment", "ImageDescription", "Software", "CustomTag"}

\* What each field can hold; each parameter text marks the field it is in
TagTexts(name) ==
  CASE name = "UserComment" -> {A1111Text, NovelAIText}
    [] name = "ImageDescription" -> {CommentText, "a cat"}
    [] name = "Software" -> {SeedText, "NovelAI"}
    [] OTHER -> {ScanText, "plain"}

TagEntries ==
  UNION { [1..n -> [name : TagNames, text : UNION { TagTexts(m) : m \in TagNames }]] :
            n \in 0..MaxFields }

ExifTree(entries) ==
  [exif |-> [i \in 1..Len(entries) |->
               [name |-> entries[i].name, field |-> Field("description", Str(entries[i].text))]]]

InitTags ==
  /\ \E entries \in TagEntries : \E head \in {JpegHead, WebpHead} :
       /\ \A i \in 1..Len(entries) : entries[i].text \in TagTexts(entries[i].name)
       /\ \A i, j \in 1..Len(entries) : entries[i].name = entries[j].name => i = j
       /\ buffer = Buffer(head, <<>>, NoImage, <<>>, ExifTree(entries), "")
  /\ pc = "start"
  /\ metadata = EmptyObject
  /\ textChunks = EmptyObject
  /\ exifData = Null
  /\ result = Null
  /\ ran = <<>>
  /\ parameters = Idle /\ workflow = Idle /\ png = Idle

NextTags ==
  \/ ExtractMetadata
  \/ JpegSegmentTier \/ JpegTagTier \/ JpegScan \/ JpegReturn
  \/ WebpTagTier \/ WebpChunkTier \/ WebpScan \/ WebpReturn

SpecTags == InitTags /\ [][NextTags]_vars

\* The text of the EXIF field of the given name, "" when the tree has none
TagText(name) ==
  IF JsTruthy(exifField(buffer.tags, name))
  THEN JsString(fieldValue2(exifField(buffer.tags, name))) ELSE ""

\* The names of the tree in search order: the prioritized names in list order,
\* then the additional fields in the order of the tree
Prioritized == IF Format = "jpeg" THEN JpegExifFields ELSE WebpExifFields

SearchOrder ==
  SelectSeq(Prioritized, LAMBDA n : TagText(n) # "")
    \o SelectSeq([i \in 1..Len(buffer.tags.exif) |-> buffer.tags.exif[i].name],
                 LAMBDA n : n \notin Elements(Prioritized))

Matching == SelectSeq(SearchOrder, LAMBDA n : hasSignature(TagText(n)))

SentinelApplies == TagText("Software") = "NovelAI" /\ TagText("UserComment") # ""

\* The record the tag-field scan is to build
TagRecord ==
  IF SentinelApplies
    THEN Put(extractNovelAIMetadata(TagText("UserComment"), TagText("ImageDescription"),
                                    EmptyObject),
             "parameters", TagText("UserComment"))
  ELSE IF Len(Matching) > 0 THEN withParameters(EmptyObject, TagText(Matching[1]))
  ELSE EmptyObject

\* C17: in the JPEG/WebP tag-field scan the record is built from the first field,
\* in search order (the prioritized names in list order, then the additional
\* fields), that holds an A1111 signature token, and no later field alters it;
\* when the software field is the Tool-B sentinel the Tool-B parser is used
\* instead.
C17_FirstFieldWins ==
  /\ pc \in {"jpeg:scan", "webp:chunks"} => metadata = TagRecord
  /\ pc = "done" /\ TagRecord # EmptyObject => result.success /\ result.data = TagRecord

----------------------------------------------------------------------------
(* Buffers that are a parameter line between stray bytes                   *)
(* (src/unnamed/part_001 lines 412-526, src/src/extractor.ts lines 16-55)  *)

\* Twelve bytes that are no signature
NoiseHead == <<113, 55, 35, 0, 17, 254, 3, 200, 9, 64, 128, 1>>

NoiseTexts == {LiteralText, GluedText, FramedText, SetOffText, "q7#%z9"}

CanonTags == [exif |-> << [name |-> "Make", field |-> Field("description", Str("Canon"))] >>]

NoiseTags ==
  { NoTags, CanonTags,
    [exif |-> << [name |-> "UserComment", field |-> Field("value", Str(CommentText))] >>] }

InitNoise ==
  /\ \E text \in NoiseTexts :
       \/ \E head \in {NoiseHead, WaveHead, ShortHead, PngHead} :
            buffer = Buffer(head, <<>>, NoImage, <<>>, NoTags, text)
       \/ \E head \in {JpegHead, WebpHead} : \E tags \in NoiseTags :
            buffer = Buffer(head, <<>>, NoImage, <<>>, tags, text)
  /\ pc = "start"
  /\ metadata = EmptyObject
  /\ textChunks = EmptyObject
  /\ exifData = Null
  /\ result = Null
  /\ ran = <<>>
  /\ parameters = Idle /\ workflow = Idle /\ png = Idle

SpecNoise == InitNoise /\ [][Next]_vars

\* The buffer holds the parameter line
HasLiteral == includes(buffer.text, LiteralText)

\* No tag of the buffer carries generation text
NothingStructured == buffer.tags \in {NoTags, CanonTags}

----------------------------------------------------------------------------
(* Director references (src/unnamed/part_006 lines 162-201)                *)

MaxRefs == 2

\* Every array of at most MaxRefs entries, and undefined for a key that is absent
ArraysOf(S) == {Undef} \cup { Arr(a) : a \in UNION { [1..n -> S] : n \in 0..MaxRefs } }

CaptionOf(o) == Obj([k \in {"caption"} |-> Obj(o)])

Descriptions ==
  { Str("pose"), Str(""), Null,
    CaptionOf([k \in {"base_caption"} |-> Str("style")]),
    CaptionOf([k \in {} |-> Undef]) }

Strengths == { Num(1), Num(0), Null }

SecondaryStrengths == { Num(3), Null }

\* The comment data with the keys whose value is not undefined
CommentData(descs, strengths, secondaries) ==
  LET all == [k \in {"director_reference_descriptions", "director_reference_strengths",
                     "director_reference_secondary_strengths"} |->
                CASE k = "director_reference_descriptions" -> descs
                  [] k = "director_reference_strengths" -> strengths
                  [] OTHER -> secondaries]
  IN Obj([k \in {k \in DOMAIN all : all[k] # Undef} |-> all[k]])

InitDirector ==
  /\ \E descs \in ArraysOf(Descriptions) :
     \E strengths \in ArraysOf(Strengths) :
     \E secondaries \in ArraysOf(SecondaryStrengths) :
       buffer = CommentData(descs, strengths, secondaries)
  /\ pc = "start"
  /\ result = Null
  /\ ran = <<>>
  /\ metadata = EmptyObject
  /\ textChunks = Idle /\ exifData = Idle
  /\ parameters = Idle /\ workflow = Idle /\ png = Idle

\* extractDirectorReferences(commentData)
ExtractDirectorReferences ==
  /\ pc = "start"
  /\ result' = Return(extractDirectorReferences(buffer))
  /\ ran' = Append(ran, "director")
  /\ pc' = "done"
  /\ UNCHANGED <<Inputs, metadata, textChunks, exifData>>

NextDirector == ExtractDirectorReferences

SpecDirector == InitDirector /\ [][NextDirector]_vars

\* The entries of one of the three arrays (none for a key that is absent)
EntriesOf(key) == IF IsArray(Get(buffer, key)) THEN Get(buffer, key).e ELSE <<>>

RefDescs == EntriesOf("director_reference_descriptions")
RefStrengths == EntriesOf("director_reference_strengths")
RefSecondaries == EntriesOf("director_reference_secondary_strengths")

\* The indices (from 1) at which at least one array has an entry, in order
RefIndices ==
  [i \in 1..Max(Len(RefDescs), Max(Len(RefStrengths), Len(RefSecondaries))) |-> i]

\* The text of a description entry
DescriptionText(d) ==
  IF d.t = "str" THEN d.v
  ELSE IF JsTruthy(Get(Get(d, "caption"), "base_caption"))
    THEN Get(Get(d, "caption"), "base_caption").v
  ELSE ""

\* The string composed of exactly the entries present at index i
ComposedOf(i) ==
  LET d == IF i <= Len(RefDescs) THEN DescriptionText(RefDescs[i]) ELSE ""
      withFirst == IF i <= Len(RefStrengths)
                   THEN d \o (IF d # "" THEN " " ELSE "") \o JsString(RefStrengths[i])
                   ELSE d
  IN IF i <= Len(RefSecondaries) THEN withFirst \o "/" \o JsString(RefSecondaries[i])
     ELSE withFirst

\* C20: the director references are the three arrays zipped over every index
\* below the largest of their lengths: each index at which at least one array has
\* an entry yields one string composed of exactly the entries present at that
\* index, and no combination of missing entries or unequal lengths raises.
C20_ZipsEveryIndex ==
  pc = "done" =>
    /\ result.kind = "return"
    /\ Len(result.value) = Len(RefIndices)
    /\ \A k \in 1..Len(RefIndices) : result.value[k] = ComposedOf(RefIndices[k])

----------------------------------------------------------------------------
(* SpecShapes: extractComfyUIMetadata on JSON values that are not graphs   *)
(* (src/unnamed/part_005 lines 185-441)                                    *)

MaxShapeNodes == 2

\* {k: v}
One(k, v) == Obj([f \in {k} |-> v])

\* {type, k: v}
Typed(type, k, v) == Obj([f \in {"type", k} |-> IF f = "type" THEN Str(type) ELSE v])

\* Entries of a nodes array (a list, drawn from by position): null, values that are no objects, nodes without a
\* type, and sampler nodes whose inputs or widget values have another shape
ShapeNodes ==
  << Null, Num(7), Str("node"), Arr(<<>>), One("id", Num(1)),
    TextNode(1, "text1"),
    Typed("KSampler", "inputs", Num(3)),
    Typed("KSampler", "inputs", Arr(<<Null>>)),
    Typed("KSampler", "inputs", Arr(<<Num(1), One("name", Str("positive"))>>)),
    Typed("KSampler", "widgets_values", Num(9)),
    Typed("SamplerCustom", "widgets_values", Arr(<<Null, Num(0)>>)),
    Typed("LoraLoader", "widgets_values", Arr(<<Str("lora")>>)) >>

\* Values of `links`: absent (undefined), not an array, an array of non-tuples
ShapeLinks == { Undef, Null, Num(4), One("1", Num(1)), Arr(<<Null, Num(1), Arr(<<Num(11)>>)>>) }

NodesWorkflow(nodes, links) ==
  IF links = Undef THEN One("nodes", Arr(nodes))
  ELSE Obj([k \in {"nodes", "links"} |-> IF k = "nodes" THEN Arr(nodes) ELSE links])

\* {class_type, inputs}
Classed(class, inputs) ==
  Obj([f \in {"class_type", "inputs"} |-> IF f = "class_type" THEN Str(class) ELSE inputs])

\* Entries of an id-keyed prompt map
ShapeEntries ==
  << Null, Num(0), Str("entry"), Arr(<<Null>>), One("class_type", Str("KSampler")),
    Classed("KSampler", Num(5)), Classed("KSampler", Null),
    Classed("KSampler", One("seed", Null)),
    Classed("CLIPTextEncode", Str("inputs")), Classed("CLIPTextEncode", One("text", Num(3))),
    Classed("SamplerCustom", One("guider", Num(2))),
    Classed("SamplerCustom", One("guider", One("sampler_name", Null))) >>

PromptMap(a, b) == Obj([k \in {"1", "2"} |-> IF k = "1" THEN a ELSE b])

\* Values handed over as workflow or prompt
ShapeValues ==
  << Null, Num(0), Num(5), Str("graph"), Arr(<<>>), Arr(<<Null>>),
    One("nodes", Num(5)), One("nodes", Null), One("prompt", Num(1)),
    One("prompt", Arr(<<Null, Num(2)>>)) >>

InitShapes ==
  /\ \/ \E n \in 0..MaxShapeNodes : \E nodes \in [1..n -> DOMAIN ShapeNodes] :
          \E links \in ShapeLinks : \E other \in {Null, Str("graph")} :
            textChunks = [workflow |-> NodesWorkflow([i \in 1..n |-> ShapeNodes[nodes[i]]], links),
                          prompt |-> other]
     \/ \E a, b \in DOMAIN ShapeEntries : \E wrapped \in BOOLEAN : \E wf \in {Null, Num(0)} :
          textChunks = [workflow |-> wf,
                        prompt |-> IF wrapped
                                   THEN One("prompt", PromptMap(ShapeEntries[a], ShapeEntries[b]))
                                   ELSE PromptMap(ShapeEntries[a], ShapeEntries[b])]
     \/ \E wf, prompt \in DOMAIN ShapeValues :
          textChunks = [workflow |-> ShapeValues[wf], prompt |-> ShapeValues[prompt]]
  /\ pc = "start"
  /\ metadata = EmptyObject
  /\ result = Null
  /\ ran = <<>>
  /\ buffer = Idle /\ parameters = Idle /\ workflow = Idle /\ png = Idle /\ exifData = Idle

\* const result = extractComfyUIMetadata(workflow, prompt, {}): the outcome of the
\* call, with the record as it stands when the call ends
ExtractComfyUIMetadata ==
  /\ pc = "start"
  /\ result' = extractComfyUIMetadata(textChunks.workflow, textChunks.prompt, metadata)
  /\ metadata' = result'.metadata
  /\ ran' = Append(ran, "comfyui")
  /\ pc' = "done"
  /\ UNCHANGED <<Inputs, textChunks, exifData>>

NextShapes == ExtractComfyUIMetadata

SpecShapes == InitShapes /\ [][NextShapes]_vars

\* C21: the Tool-C graph parser never throws across its public boundary: for
\* every JSON value passed as workflow or prompt (node arrays with null or
\* non-object entries, links that are not arrays, inputs of unexpected shape)
\* extractComfyUIMetadata returns a record.
C21_NeverThrows == pc = "done" => result.kind = "return"

----------------------------------------------------------------------------
(* SpecCalls: extractMetadata called again and again (extractor.ts lines   *)
(* 16-55).  The calls are synchronous, so they are a sequence; the calls   *)
(* made so far are kept, each with the buffer it was given and the value   *)
(* it returned, in the variable `parameters`.                              *)

MaxCalls == 2

CallBuffers ==
  { Buffer(<<>>, <<>>, NoImage, <<>>, NoTags, ""),
    Buffer(PngHead, <<tEXt("prompt", PromptMapText)>>,
           StealthPng(MaxHeight, 0, <<0, 0, 0, 8>>, 1, "full"), <<>>, NoTags, ""),
    Buffer(JpegHead, <<>>, NoImage, <<>>,
           [exif |-> << [name |-> "UserComment", field |-> Field("value", Str(A1111Text))] >>],
           ""),
    Buffer(JpegHead, <<>>, NoImage, <<>>, NoTags, ScanText),
    Buffer(JpegHead, <<>>, NoImage, <<>>, CanonTags, ""),
    Buffer(WebpHead, <<>>, NoImage, <<>>, [xmp |-> Field("parameters", Str(CommentText))], ""),
    Buffer(WebpHead, <<>>, NoImage, <<>>, NoTags, ScanText) }

\* The record a record left over from the call before would be
CallRecordKept == metadata

\* const metadata: SDMetadata = {} at the head of each orchestrator
CallRecord == EmptyObject

InitCalls ==
  /\ buffer \in CallBuffers
  /\ parameters = <<>>
  /\ pc = "start"
  /\ metadata = EmptyObject
  /\ textChunks = EmptyObject
  /\ exifData = Null
  /\ result = Null
  /\ ran = <<>>
  /\ workflow = Idle /\ png = Idle

\* The call has returned and extractMetadata is called once more, on any buffer:
\* every local of the call before is gone, the locals of the new call are new
CallAgain ==
  /\ pc = "done"
  /\ Len(parameters) < MaxCalls
  /\ parameters' = Append(parameters, [buffer |-> buffer, result |-> result])
  /\ buffer' \in CallBuffers
  /\ pc' = "start"
  /\ metadata' = CallRecord
  /\ textChunks' = EmptyObject
  /\ exifData' = Null
  /\ result' = Null
  /\ ran' = <<>>
  /\ UNCHANGED <<workflow, png>>

NextCalls == Next \/ CallAgain

SpecCalls == InitCalls /\ [][NextCalls]_vars

\* The calls made: those that have returned, and the one at hand once it has
Returned ==
  IF pc = "done" THEN Append(parameters, [buffer |-> buffer, result |-> result])
  ELSE parameters

----------------------------------------------------------------------------
(* SpecAlloc: extractStealthPngMetadata with the array it allocates        *)
(* (src/unnamed/part_003 lines 15-40)                                      *)

\* Lines 17-30: the length of `new Array(totalAlphaBits)`, 0 when the call
\* returns before it
lowestBitsAllocated(p) ==
  IF Len(p.data) = 0 THEN 0
  ELSE IF p.width * p.height < 15 * 8 THEN 0
  ELSE p.width * p.height

\* A call of extractStealthPngMetadata(png); `ran` takes the lengths of the
\* arrays the call allocated
StealthAllocate ==
  /\ pc = "start"
  /\ result' = extractStealthPngMetadata(png)
  /\ ran' = IF lowestBitsAllocated(png) > 0 THEN Append(ran, lowestBitsAllocated(png)) ELSE ran
  /\ pc' = "done"
  /\ UNCHANGED <<buffer, parameters, workflow, png, metadata, textChunks, exifData>>

NextAlloc == StealthAllocate

SpecAlloc == InitStealth /\ [][NextAlloc]_vars

\* The code names no maximum.  Any maximum that turns away an image of the model
\* is below the pixel count of the largest one.
C23_Maximum == StealthWidth * MaxHeight - 1

\* C23: the steganographic tier has a maximum image-dimension guard: for an image
\* whose width x height exceeds the maximum it returns "not present" and does
\* not allocate the bit array, so what it allocates is bounded whatever the input.
C23_DimensionGuard ==
  (pc = "done" /\ png.width * png.height > C23_Maximum) =>
    /\ result = Return(NullResult)
    /\ ran = <<>>

----------------------------------------------------------------------------
(* The two roles of the node-array parser (src/unnamed/part_005 lines      *)
(* 291-322), under SpecComfy                                               *)

\* The workflow has two text nodes with distinct texts, neither empty
C24_TwoDistinctTexts ==
  \E A, B \in C4_TextNodes :
    /\ C4_Text(A) # "" /\ C4_Text(B) # "" /\ C4_Text(A) # C4_Text(B)

\* C24: whenever the workflow has at least two text-encoding nodes with distinct
\* non-empty texts, prompt and negativePrompt are never taken from the same node,
\* the case where one role is traced and the other falls back to file order
\* included.
C24_RolesFromDifferentNodes ==
  (pc = "done" /\ C24_TwoDistinctTexts) =>
    ~(/\ Has(metadata, "prompt") /\ Has(metadata, "negativePrompt")
      /\ metadata["prompt"] = metadata["negativePrompt"])

----------------------------------------------------------------------------
(* Strings without a marker line (src/src/a1111.ts lines 27-59), under     *)
(* SpecA1111                                                               *)

\* No line of the string starts with `Negative prompt:` or `Steps:`
C25_NoMarkerLine == RenderLines(parameters) # "" /\ markerIndex(parameters, 1) = 0

\* The lines of the string that are not empty, as text
C25_Lines ==
  SelectSeq([i \in 1..Len(parameters) |-> RenderParts(parameters[i])], LAMBDA l : l # "")

\* C25: on a string with no line starting with `Negative prompt:` or `Steps:`
\* parseA1111Parameters sets prompt to the joined trimmed lines and sets no other
\* field: a line that contributes to prompt is not also parsed as `key: value`
\* parameter pairs.
C25_PromptOnly ==
  (pc = "done" /\ C25_NoMarkerLine) =>
    /\ DOMAIN metadata = {"prompt"}
    /\ metadata["prompt"] = Join(C25_Lines, "\n")

----------------------------------------------------------------------------
(* SpecSampler: the id-keyed parser on a sampler entry whose inputs declare *)
(* any of seed, steps, cfg and cfg_scale, each with a number that may be 0  *)
(* (src/unnamed/part_005 lines 366-382)                                     *)

\* An input that is not declared reads undefined
DeclaredOrNot(values) == {Undef} \cup { Num(v) : v \in values }

\* The inputs with the keys that are declared
SamplerInputs(seed, steps, cfg, scale) ==
  LET all == [k \in {"seed", "steps", "cfg", "cfg_scale"} |->
                CASE k = "seed" -> seed [] k = "steps" -> steps
                  [] k = "cfg" -> cfg [] OTHER -> scale]
  IN Obj([k \in {k \in DOMAIN all : all[k] # Undef} |-> all[k]])

SamplerEntry(class, key, inputs) ==
  Obj([f \in {"class_type", key} |-> IF f = "class_type" THEN Str(class) ELSE inputs])

InitSampler ==
  /\ \E seed \in DeclaredOrNot({0, 42, -1}), steps \in DeclaredOrNot({0, 20}),
        cfg \in DeclaredOrNot({0, 7}), scale \in DeclaredOrNot({0, 8}),
        class \in {"KSampler", "KSamplerAdvanced"}, key \in {"inputs", "input"} :
       workflow = Obj([id \in {"1", "3"} |->
                         IF id = "1" THEN PromptTextNode("text1")
                         ELSE SamplerEntry(class, key, SamplerInputs(seed, steps, cfg, scale))])
  /\ pc = "start"
  /\ metadata = EmptyObject
  /\ buffer = Idle /\ parameters = Idle /\ png = Idle /\ result = Idle
  /\ textChunks = Idle /\ exifData = Idle
  /\ ran = <<>>

NextSampler == ComfyParse

SpecSampler == InitSampler /\ [][NextSampler]_vars

\* What the sampler entry declares for an input
C26_Input(k) == Get(JsOr(Get(workflow.f["3"], "inputs"), Get(workflow.f["3"], "input")), k)

\* The field is the string form of the number declared
C26_IsStringOf(f, x) == Has(metadata, f) /\ metadata[f] = ToString(x.v)

\* C26: in the id-keyed parser, whenever a sampler entry declares cfg (or
\* cfg_scale), seed or steps, the record field is the string form of the declared
\* value, for every number, 0 included.
C26_DeclaredNumbers ==
  pc = "done" =>
    /\ C26_Input("seed") # Undef => C26_IsStringOf("seed", C26_Input("seed"))
    /\ C26_Input("steps") # Undef => C26_IsStringOf("steps", C26_Input("steps"))
    /\ C26_Input("cfg") # Undef => C26_IsStringOf("cfgScale", C26_Input("cfg"))
    /\ (C26_Input("cfg") = Undef /\ C26_Input("cfg_scale") # Undef) =>
         C26_IsStringOf("cfgScale", C26_Input("cfg_scale"))

----------------------------------------------------------------------------
(* SpecWalks: the loops that walk a buffer, one iteration per step.  pc     *)
(* names the loop, buffer holds the bytes, result the cursor (offset, or    *)
(* the match index of the pattern loop, with the number of the pattern in   *)
(* parameters); ran lists the cursor at the head of every iteration that    *)
(* ran its body; textChunks collects what the walk found.                   *)

MaxWalkPieces == 2

\* 'Steps:', 'Sampler:', 'CFG scale:', 'Seed:' and 'prompt' as bytes
StepsBytes == <<83, 116, 101, 112, 115, 58>>
SignatureBytes ==
  {StepsBytes, <<83, 97, 109, 112, 108, 101, 114, 58>>,
   <<67, 70, 71, 32, 115, 99, 97, 108, 101, 58>>, <<83, 101, 101, 100, 58>>}
PromptBytes == <<112, 114, 111, 109, 112, 116>>

\* Buffer.from(pattern) of the six patterns at part_001 lines 484-491
BinaryPatternBytes ==
  << StepsBytes,
     <<112, 97, 114, 97, 109, 101, 116, 101, 114, 115>>,
     <<110, 101, 103, 97, 116, 105, 118, 101, 95>> \o PromptBytes,
     PromptBytes \o <<58>>,
     <<83, 116, 101, 112, 115>>,
     <<83, 97, 109, 112, 108, 101, 114>> >>

\* buffer.readUInt16BE(offset) and buffer.readUInt32LE(offset)
readUInt16BE(buf, offset) == buf[offset + 1] * 256 + buf[offset + 2]
readUInt32LE(buf, offset) ==
  buf[offset + 1] + buf[offset + 2] * 256 + buf[offset + 3] * 65536
    + buf[offset + 4] * 16777216

\* text.includes(...) of a text decoded from bytes, for the ASCII needles
bytesHaveSignature(data) == \E s \in SignatureBytes : includes(data, s)

\* n bytes of 'x'
Filler(n) == [i \in 1..n |-> 120]

\* What a chunk or segment holds and the length written in front of it: its
\* own, 0, 1, or one larger than any buffer of the model
OverLength == 300
LongPayload == StepsBytes \o Filler(ScanMinLength)
TwiceSteps == StepsBytes \o StepsBytes
WalkShapes ==
  { <<p, n>> : p \in {<<>>, TwiceSteps}, n \in {0, 1, OverLength} }
    \cup {<<LongPayload, Len(LongPayload)>>}

\* The data chunks carry every shape; the text chunk is well-formed ('a', 0, 'b')
PngPieces ==
  { BigEndian32(s[2]) \o TypeBytes("IDAT") \o s[1] \o <<101, 102, 103, 104>> :
      s \in WalkShapes }
  \cup {BigEndian32(3) \o TypeBytes("tEXt") \o <<97, 0, 98>> \o <<101, 102, 103, 104>>,
        IENDBytes}

\* FF, the marker and the length, which counts its own two bytes when it is
\* well-formed; FF FF is padding, FF DA the start of scan, FF DB a table
JpegLength(s) == IF s[2] = Len(s[1]) THEN s[2] + 2 ELSE s[2]
JpegPieces ==
  { <<255, 225, JpegLength(s) \div 256, JpegLength(s) % 256>> \o s[1] : s \in WalkShapes }
  \cup {<<255, 255>>, <<255, 218, 0, 2>>, <<255, 219, 1, 44, 120>>}

\* The fourCC ('EXIF' or 'VP8 '), the size little-endian, and the data
WebpPieces ==
  { <<69, 88, 73, 70>> \o <<s[2] % 256, s[2] \div 256, 0, 0>> \o s[1] : s \in WalkShapes }
  \cup {<<86, 80, 56, 32, 1, 0, 0, 0, 120, 0>>}

RECURSIVE Concat(_)
Concat(pieces) == IF Len(pieces) = 0 THEN <<>> ELSE pieces[1] \o Concat(Tail(pieces))

\* A head, up to MaxWalkPieces pieces, and one of the tails
WalkFiles(head, pieces, tails) ==
  { head \o Concat(ps) \o tail :
      ps \in UNION { [1..n -> pieces] : n \in 0..MaxWalkPieces }, tail \in tails }

\* Nothing, or thirteen bytes of 0
WalkTails == {<<>>, [i \in 1..13 |-> 0]}

WalkLoops == {"png", "jpeg", "scan", "pattern", "webp"}

WalkBuffers(loop) ==
  CASE loop = "png" -> WalkFiles(SubSeq(PngHead, 1, 8), PngPieces, WalkTails)
    [] loop \in {"jpeg", "scan"} -> WalkFiles(<<255, 216>>, JpegPieces, WalkTails)
    [] loop = "webp" -> WalkFiles(WebpHead, WebpPieces, WalkTails)
    [] OTHER -> WalkFiles(WebpHead, WebpPieces, {<<>>})

\* The cursor a loop starts from: png.ts line 134, part_001 lines 310, 453 and
\* 494, part_003 line 383
WalkStart(loop, buf) ==
  CASE loop = "png" -> 8
    [] loop \in {"jpeg", "scan"} -> 2
    [] loop = "pattern" -> indexOf(buf, BinaryPatternBytes[1])
    [] OTHER -> 12

InitWalks ==
  /\ \E loop \in WalkLoops : \E buf \in WalkBuffers(loop) :
       /\ pc = loop
       /\ buffer = buf
       /\ result = WalkStart(loop, buf)
       /\ parameters = IF loop = "pattern" THEN 1 ELSE 0
  /\ ran = <<>>
  /\ textChunks = IF pc = "png" THEN EmptyObject ELSE <<>>
  /\ workflow = Idle /\ png = Idle /\ metadata = Idle /\ exifData = Idle

\* png.ts lines 139-150: past the length, the type, the data and the CRC
pngNextDataOnly(offset, length) == offset + length

pngNext(offset, length) == offset + 4 + 4 + length + 4

\* The cursor at the head of an iteration of the loop (and pattern) now running
Visit == [loop |-> pc, pattern |-> parameters, at |-> result]

\* png.ts lines 136-161: the PNG chunk walk
PngWalk ==
  /\ pc = "png"
  /\ UNCHANGED <<buffer, parameters, workflow, png, metadata, exifData>>
  /\ IF ~(result < Len(buffer) - 12)
     THEN pc' = "done" /\ UNCHANGED <<result, ran, textChunks>>
     ELSE LET length == readUInt32BE(buffer, result)
              type == chunkType(bufferSlice(buffer, result + 4, result + 8))
              chunkData == bufferSlice(buffer, result + 8, result + 8 + length)
          IN /\ result' = pngNext(result, length)
             /\ ran' = Append(ran, Visit)
             /\ textChunks' = processChunk(type, chunkData, textChunks)
             /\ pc' = IF type = "IEND" THEN "done" ELSE pc

\* extractSegmentText on the bytes of a segment: the data when it reads as text
\* with a signature or the word 'prompt', or as Exif with 'Steps:' or 'Sampler:'
segmentContent(marker, segmentData) ==
  IF marker = 254 THEN SelectSeq(segmentData, LAMBDA b : b # 0)
  ELSE IF marker \notin 224..239 THEN <<>>
  ELSE IF bytesHaveSignature(segmentData) \/ includes(segmentData, PromptBytes)
    THEN segmentData
  ELSE IF /\ Len(segmentData) > 6
          /\ SubSeq(segmentData, 1, 6) = <<69, 120, 105, 102, 0, 0>>
          /\ \/ includes(segmentData, StepsBytes)
             \/ includes(segmentData, <<83, 97, 109, 112, 108, 101, 114, 58>>)
    THEN SubSeq(segmentData, 7, Len(segmentData))
  ELSE <<>>

\* part_001 lines 312-360: the segment walk of extractJpegAppSegments
JpegSegmentWalk ==
  /\ pc = "jpeg"
  /\ UNCHANGED <<buffer, parameters, workflow, png, metadata, exifData>>
  /\ IF ~(result < Len(buffer) - 4)
     THEN pc' = "done" /\ UNCHANGED <<result, ran, textChunks>>
     ELSE LET marker == buffer[result + 2]
              segmentLength == readUInt16BE(buffer, result + 2)
              segmentData == bufferSlice(buffer, result + 4, result + 4 + segmentLength - 2)
          IN /\ ran' = Append(ran, Visit)
             /\ IF buffer[result + 1] # 255
                THEN result' = result + 1 /\ UNCHANGED <<pc, textChunks>>
                ELSE IF marker = 255
                  THEN result' = result + 2 /\ UNCHANGED <<pc, textChunks>>
                ELSE IF marker \in {218, 217} \/ result + 2 + 2 > Len(buffer)
                  THEN result' = result + 2 /\ pc' = "done" /\ UNCHANGED textChunks
                ELSE IF result + 4 + segmentLength - 2 > Len(buffer)
                  THEN result' = result + 4 /\ pc' = "done" /\ UNCHANGED textChunks
                ELSE /\ result' = result + 4 + segmentLength - 2
                     /\ pc' = pc
                     /\ textChunks' =
                          IF Len(segmentContent(marker, segmentData)) > 0
                          THEN Append(textChunks, segmentContent(marker, segmentData))
                          ELSE textChunks

\* part_001 lines 453-477: the segment walk of the scanner, which goes on to
\* the byte patterns unless a segment is returned
ScanSegmentWalk ==
  /\ pc = "scan"
  /\ UNCHANGED <<buffer, workflow, png, metadata, exifData>>
  /\ IF ~(result < Len(buffer) - 10)
     THEN /\ pc' = "pattern"
          /\ parameters' = 1
          /\ result' = WalkStart("pattern", buffer)
          /\ UNCHANGED <<ran, textChunks>>
     ELSE LET length == readUInt16BE(buffer, result + 2)
              segmentData == bufferSlice(buffer, result + 4, result + 2 + length)
              isApp == buffer[result + 1] = 255 /\ buffer[result + 2] \in 224..239
              found == /\ isApp /\ length > 2 /\ result + 2 + length <= Len(buffer)
                       /\ includes(segmentData, StepsBytes)
                       /\ Len(segmentData) > ScanMinLength
          IN /\ ran' = Append(ran, Visit)
             /\ UNCHANGED parameters
             /\ IF found
                THEN pc' = "done" /\ textChunks' = <<segmentData>> /\ UNCHANGED result
                ELSE /\ result' = IF isApp THEN result + 2 + length ELSE result + 1
                     /\ UNCHANGED <<pc, textChunks>>

\* part_001 lines 493-523: one pattern after the other, and for each pattern
\* one match after the other
PatternSearch ==
  /\ pc = "pattern"
  /\ UNCHANGED <<buffer, workflow, png, metadata, exifData>>
  /\ IF result = -1
     THEN /\ UNCHANGED <<ran, textChunks>>
          /\ IF parameters = Len(BinaryPatternBytes)
             THEN pc' = "done" /\ UNCHANGED <<parameters, result>>
             ELSE /\ parameters' = parameters + 1
                  /\ result' = indexOf(buffer, BinaryPatternBytes[parameters + 1])
                  /\ pc' = pc
     ELSE LET chunk == bufferSlice(buffer, Max(0, result - BytesBefore),
                                   Min(Len(buffer), result + BytesAfter))
              stepsIdx == indexOf(chunk, StepsBytes)
              extracted == bufferSlice(chunk, Max(0, stepsIdx - StepsBefore),
                                       Min(Len(chunk), stepsIdx + StepsAfter))
              nextIndex == indexOfFrom(buffer, BinaryPatternBytes[parameters], result + 1)
          IN /\ ran' = Append(ran, Visit)
             /\ UNCHANGED parameters
             /\ IF /\ includes(chunk, StepsBytes) /\ Len(chunk) > ScanMinLength
                   /\ Len(extracted) > ScanMinLength
                THEN pc' = "done" /\ textChunks' = <<extracted>> /\ UNCHANGED result
                ELSE /\ result' = IF nextIndex = result THEN -1 ELSE nextIndex
                     /\ UNCHANGED <<pc, textChunks>>

\* part_003 lines 385-422: the chunk walk of parseWebPChunks
WebpChunkWalk ==
  /\ pc = "webp"
  /\ UNCHANGED <<buffer, parameters, workflow, png, metadata, exifData>>
  /\ IF ~(result < Len(buffer) - 8)
     THEN pc' = "done" /\ UNCHANGED <<result, ran, textChunks>>
     ELSE LET chunkFourCC == bufferSlice(buffer, result, result + 4)
              chunkSize == readUInt32LE(buffer, result + 4)
              chunkData == bufferSlice(buffer, result + 8, result + 8 + chunkSize)
          IN /\ ran' = Append(ran, Visit)
             /\ IF result + 4 + 4 > Len(buffer)
                THEN result' = result + 4 /\ pc' = "done" /\ UNCHANGED textChunks
                ELSE IF result + 8 + chunkSize > Len(buffer)
                  THEN result' = result + 8 /\ pc' = "done" /\ UNCHANGED textChunks
                ELSE /\ result' = result + 8 + chunkSize + (chunkSize % 2)
                     /\ IF /\ chunkFourCC \in {<<69, 88, 73, 70>>, <<88, 77, 80, 32>>}
                           /\ bytesHaveSignature(chunkData)
                        THEN pc' = "done" /\ textChunks' = <<chunkData>>
                        ELSE UNCHANGED <<pc, textChunks>>

NextWalks ==
  \/ PngWalk
  \/ JpegSegmentWalk
  \/ ScanSegmentWalk
  \/ PatternSearch
  \/ WebpChunkWalk

SpecWalks == InitWalks /\ [][NextWalks]_vars

\* Every loop is one thread of straight-line code: an iteration that can run does
SpecWalksFair == SpecWalks /\ WF_vars(NextWalks)

\* The cursors one loop (for the pattern loop: under one pattern) was at
C27_Visits(loop, pattern) ==
  SelectSeq(ran, LAMBDA v : v.loop = loop /\ v.pattern = pattern)

C27_StrictlyIncreasing(visits) ==
  \A i, j \in 1..Len(visits) : i < j => visits[i].at < visits[j].at

C27_CursorAdvances ==
  \A loop \in WalkLoops : \A pattern \in 0..Len(BinaryPatternBytes) :
    C27_StrictlyIncreasing(C27_Visits(loop, pattern))

----------------------------------------------------------------------------
(* SpecCache: one LRUCache (src/src/utils.ts lines 187-229) under any      *)
(* sequence of set, get, has and clear calls.  workflow is the Map, as the *)
(* sequence of its entries in insertion order; parameters is maxSize;      *)
(* result is the last call with what it returned; ran lists the keys of    *)
(* the Map from the least recently to the most recently set or read by get.*)

MaxCacheSize == 2

\* Keys and values of the calls: strings, the empty string, and undefined as a key
CacheKeys == {Str("a"), Str("b"), Str("c"), Undef}
CacheValues == {Str("x"), Str("")}

\* Map.prototype.has, get, delete and set on the sequence of entries
mapHas(entries, key) == \E i \in DOMAIN entries : entries[i].key = key
mapGet(entries, key) ==
  IF mapHas(entries, key) THEN (CHOOSE e \in { entries[i] : i \in DOMAIN entries } : e.key = key).value
  ELSE Undef
mapDelete(entries, key) == SelectSeq(entries, LAMBDA e : e.key # key)
mapSet(entries, key, value) ==
  IF mapHas(entries, key)
  THEN [i \in DOMAIN entries |->
          IF entries[i].key = key THEN [key |-> key, value |-> value] ELSE entries[i]]
  ELSE Append(entries, [key |-> key, value |-> value])

\* this.cache.keys().next().value: the first key, undefined for an empty Map
firstKeyOf(entries) == IF Len(entries) = 0 THEN Undef ELSE entries[1].key

\* The order of use after a call that set or read key: key last, and only the
\* keys the Map still has
usedLast(order, key, entries) ==
  LET others == SelectSeq(order, LAMBDA k : k # key /\ mapHas(entries, k))
  IN IF mapHas(entries, key) THEN Append(others, key) ELSE others

CacheCall(op, key, returned) == [op |-> op, key |-> key, returned |-> returned]

InitCache ==
  /\ pc = "cache"
  /\ parameters \in 1..MaxCacheSize
  /\ workflow = <<>>
  /\ ran = <<>>
  /\ result = CacheCall("new", Undef, Undef)
  /\ buffer = Idle /\ png = Idle /\ metadata = Idle /\ textChunks = Idle /\ exifData = Idle

\* utils.ts lines 205-216
LRUSet ==
  /\ pc = "cache"
  /\ \E key \in CacheKeys, value \in CacheValues :
       LET kept == IF mapHas(workflow, key) THEN mapDelete(workflow, key)
                   ELSE IF Len(workflow) >= parameters /\ firstKeyOf(workflow) # Undef
                     THEN mapDelete(workflow, firstKeyOf(workflow))
                   ELSE workflow
       IN /\ workflow' = mapSet(kept, key, value)
          /\ ran' = usedLast(ran, key, workflow')
          /\ result' = CacheCall("set", key, Undef)
  /\ UNCHANGED <<pc, buffer, parameters, png, metadata, textChunks, exifData>>

\* utils.ts lines 195-203
LRUGet ==
  /\ pc = "cache"
  /\ \E key \in CacheKeys :
       LET item == mapGet(workflow, key)
       IN /\ workflow' = IF JsTruthy(item) THEN mapSet(mapDelete(workflow, key), key, item)
                         ELSE workflow
          /\ ran' = usedLast(ran, key, workflow')
          /\ result' = CacheCall("get", key, item)
  /\ UNCHANGED <<pc, buffer, parameters, png, metadata, textChunks, exifData>>

\* utils.ts lines 218-220
LRUHas ==
  /\ pc = "cache"
  /\ \E key \in CacheKeys : result' = CacheCall("has", key, mapHas(workflow, key))
  /\ UNCHANGED <<pc, buffer, parameters, workflow, png, metadata, textChunks, exifData, ran>>

\* utils.ts lines 222-224
LRUClear ==
  /\ pc = "cache"
  /\ workflow' = <<>>
  /\ ran' = <<>>
  /\ result' = CacheCall("clear", Undef, Undef)
  /\ UNCHANGED <<pc, buffer, parameters, png, metadata, textChunks, exifData>>

NextCache == LRUSet \/ LRUGet \/ LRUHas \/ LRUClear

SpecCache == InitCache /\ [][NextCache]_vars

C28_Keys(entries) == { entries[i].key : i \in DOMAIN entries }

\* A set of a key the cache does not have, on a cache that is full
C28_SetOfNewKeyOnFull ==
  /\ result'.op = "set"
  /\ ~mapHas(workflow, result'.key)
  /\ Len(workflow) >= parameters

\* The step removes one entry, the least recently used one, and adds the new key
C28_EvictsLeastRecent ==
  C28_Keys(workflow') = (C28_Keys(workflow) \ {ran[1]}) \cup {result'.key}

C28_SetStep == C28_SetOfNewKeyOnFull => C28_EvictsLeastRecent

\* C28: for every maxSize >= 1 and every sequence of set, get, has and clear
\* calls with arbitrary keys and values, size is at most maxSize, and a set of a
\* new key on a full cache removes exactly one entry, the one least recently set
\* or read by get.
C28_BoundedLeastRecentlyUsed == [](Len(workflow) <= parameters) /\ [][C28_SetStep]_vars

----------------------------------------------------------------------------
(* SpecDedupe: dedupeImageSegments (src/src/index.ts lines 837-869) on     *)
(* lists of up to MaxSegments segments.  A segment is [attrs, data], each  *)
(* an object of string fields (the empty object when absent); workflow     *)
(* holds the list given, result the list returned.                         *)

MaxSegments == 3

\* A URL as `new URL` reads it: what stands before the query, and the query
\* parameters in the order written
Url(base, query) == [base |-> base, query |-> query]

RECURSIVE queryText(_)
queryText(query) ==
  IF Len(query) = 0 THEN ""
  ELSE query[1][1] \o "=" \o query[1][2]
         \o (IF Len(query) > 1 THEN "&" ELSE "") \o queryText(Tail(query))

\* url.toString()
urlText(u) == u.base \o (IF Len(u.query) = 0 THEN "" ELSE "?" \o queryText(u.query))

Urls ==
  { Url("http://h/p", q) :
      q \in {<<>>, << <<"a", "1">>, <<"b", "2">> >>, << <<"b", "2">>, <<"a", "1">> >>} }

\* a[0].localeCompare(b[0]) < 0 on the parameter names of the model
nameBefore(x, y) == x = "a" /\ y = "b"

\* Array.prototype.sort by name, which keeps the order of equal names
RECURSIVE sortedByName(_)
insertByName(sorted, p) ==
  LET later == { i \in DOMAIN sorted : nameBefore(p[1], sorted[i][1]) }
      at == IF later = {} THEN Len(sorted) + 1 ELSE CHOOSE i \in later : \A j \in later : i <= j
  IN SubSeq(sorted, 1, at - 1) \o <<p>> \o SubSeq(sorted, at, Len(sorted))

sortedByName(query) ==
  IF Len(query) = 0 THEN <<>>
  ELSE insertByName(sortedByName(SubSeq(query, 1, Len(query) - 1)), query[Len(query)])

\* index.ts lines 839-849: the URL with its query sorted; a string that is not a
\* URL is returned as it is, nothing as ''
dedupeNormalizeUrl(u) ==
  IF u = "" THEN ""
  ELSE IF \E x \in Urls : urlText(x) = u
    THEN LET x == CHOOSE x \in Urls : urlText(x) = u
         IN urlText(Url(x.base, sortedByName(x.query)))
  ELSE u

\* index.ts lines 505-518: the attrs, and the fields of data that attrs leaves
\* undefined
mergeSegmentAttributes(segment) ==
  [k \in (DOMAIN segment.attrs) \cup (DOMAIN segment.data) |->
     IF k \in DOMAIN segment.attrs THEN segment.attrs[k] ELSE segment.data[k]]

\* a.k1 || a.k2 || ... || '': the first field that is a non-empty string
RECURSIVE firstTruthy(_, _)
firstTruthy(a, keys) ==
  IF Len(keys) = 0 THEN ""
  ELSE IF Truthy(a, keys[1]) THEN a[keys[1]]
  ELSE firstTruthy(a, Tail(keys))

\* index.ts lines 850-857
makeKey(seg) ==
  LET a == mergeSegmentAttributes(seg)
      id == firstTruthy(a, <<"file", "image", "fileId", "file_id", "id">>)
      url == dedupeNormalizeUrl(firstTruthy(a, <<"src", "url">>))
      file == firstTruthy(a, <<"file">>)
      size == firstTruthy(a, <<"fileSize", "size">>)
  IN IF id # "" THEN id
     ELSE IF url # "" THEN url
     ELSE IF file # "" \/ size # "" THEN "file:" \o file \o "#" \o size
     ELSE ""

\* index.ts lines 858-868, with every repeated key dropped, the empty one too
RECURSIVE dedupeFromEveryKey(_, _, _)
dedupeFromEveryKey(segments, seen, unique) ==
  IF Len(segments) = 0 THEN unique
  ELSE IF makeKey(segments[1]) \in seen
    THEN dedupeFromEveryKey(Tail(segments), seen, unique)
  ELSE dedupeFromEveryKey(Tail(segments), seen \cup {makeKey(segments[1])},
                          Append(unique, segments[1]))

\* index.ts lines 858-868: the loop, from the segments not yet looked at
RECURSIVE dedupeFrom(_, _, _)
dedupeFrom(segments, seen, unique) ==
  IF Len(segments) = 0 THEN unique
  ELSE IF makeKey(segments[1]) # "" /\ makeKey(segments[1]) \in seen
    THEN dedupeFrom(Tail(segments), seen, unique)
  ELSE dedupeFrom(Tail(segments),
                  IF makeKey(segments[1]) # "" THEN seen \cup {makeKey(segments[1])} ELSE seen,
                  Append(unique, segments[1]))

dedupeImageSegments(segments) == dedupeFrom(segments, {}, <<>>)

One1(k, v) == [f \in {k} |-> v]
Segment(attrs, data) == [attrs |-> attrs, data |-> data]

\* Segments with a file, the same text as an id, a field of data hidden by an
\* empty or a set field of attrs, URLs that differ in the order of their query
\* only, a size alone, and nothing to tell them by
DedupeSegments ==
  { Segment(One1("file", "f1"), EmptyObject),
    Segment(EmptyObject, One1("id", "f1")),
    Segment(One1("id", "f2"), One1("file", "f1")),
    Segment(One1("file", ""), One1("file", "f1")),
    Segment(One1("fileSize", "10"), One1("id", "")),
    Segment(EmptyObject, One1("size", "10")),
    Segment(EmptyObject, EmptyObject),
    Segment(One1("title", "t"), EmptyObject) }
  \cup { Segment(One1("src", urlText(u)), EmptyObject) : u \in Urls }
  \cup { Segment(EmptyObject, One1("url", "h/p?b=2&a=1")) }

InitDedupe ==
  /\ pc = "start"
  /\ workflow \in UNION { [1..n -> DedupeSegments] : n \in 0..MaxSegments }
  /\ result = <<>>
  /\ buffer = Idle /\ parameters = Idle /\ png = Idle /\ metadata = Idle
  /\ textChunks = Idle /\ exifData = Idle
  /\ ran = <<>>

\* dedupeImageSegments(segments)
DedupeImageSegments ==
  /\ pc = "start"
  /\ result' = dedupeImageSegments(workflow)
  /\ pc' = "done"
  /\ UNCHANGED <<buffer, parameters, workflow, png, metadata, textChunks, exifData, ran>>

NextDedupe == DedupeImageSegments

SpecDedupe == InitDedupe /\ [][NextDedupe]_vars

\* The places of the input whose segment has no key, or a key no earlier place has
C29_Kept ==
  { i \in DOMAIN workflow :
      makeKey(workflow[i]) = "" \/ \A j \in 1..(i - 1) : makeKey(workflow[j]) # makeKey(workflow[i]) }

\* The places of the input the output was taken from, in order: the n-th segment
\* of the output is the segment at the n-th smallest place
C29_TakenFrom(places) ==
  /\ Len(result) = Cardinality(places)
  /\ \A i \in places : result[Cardinality({ j \in places : j <= i })] = workflow[i]

\* C29: dedupeImageSegments returns a subsequence of its input, in input order,
\* in which no two segments have the same non-empty key; of the segments with one
\* non-empty key it keeps the first, and it keeps every segment whose key is empty.
C29_FirstOfEachKey ==
  pc = "done" =>
    /\ C29_TakenFrom(C29_Kept)
    /\ \A m, n \in DOMAIN result :
         (m # n /\ makeKey(result[m]) # "") => makeKey(result[m]) # makeKey(result[n])

\* A list from which the second segment of one key was dropped while a segment
\* without a key that came after it stayed
C29_Witness ==
  /\ pc = "done"
  /\ Len(workflow) = 3 /\ Len(result) = 2
  /\ makeKey(workflow[1]) # "" /\ makeKey(workflow[2]) = makeKey(workflow[1])
  /\ workflow[2] # workflow[1]
  /\ makeKey(result[2]) = ""

----------------------------------------------------------------------------
(* SpecTempFile: extractMetadataWithCache (src/src/index.ts lines 780-793)  *)
(* on one buffer.  The buffers are PNG files whose text chunks are          *)
(* parameters, a plain prompt or Description, JPEG and WebP files the tag   *)
(* library rejects, and buffers of no image format; parameters holds the    *)
(* attrs of the segment; exifData is the module's cacheDirEnsured; ran      *)
(* lists the calls made on the file system; result is what was returned.    *)

\* process.cwd() joined with 'data' and 'edexif' (index.ts line 89)
CACHE_DIR == "/srv/bot/data/edexif"

\* index.ts lines 903-916: the characters bufferFromBase64 accepts
Base64Alphabet == "ABCDEFGHIJKLMNOPQRSTUVWXYZabcdefghijklmnopqrstuvwxyz0123456789+/"
Base64Accepted == { SubSeq(Base64Alphabet, i, i) : i \in 1..Len(Base64Alphabet) } \cup {"-", "_", "="}

base64Value(c) ==
  CASE c = "-" -> 62 [] c = "_" -> 63
    [] OTHER -> (CHOOSE i \in 1..Len(Base64Alphabet) : SubSeq(Base64Alphabet, i, i) = c) - 1

\* Buffer.from(text, 'base64'): three bytes for four characters, up to the padding
base64Group(v1, v2, v3, v4) ==
  <<v1 * 4 + v2 \div 16, (v2 % 16) * 16 + v3 \div 4, (v3 % 4) * 64 + v4>>

RECURSIVE base64Values(_)
base64Values(text) ==
  IF Len(text) = 0 \/ SubSeq(text, 1, 1) = "=" THEN <<>>
  ELSE <<base64Value(SubSeq(text, 1, 1))>> \o base64Values(SubSeq(text, 2, Len(text)))

RECURSIVE base64Groups(_)
base64Groups(v) ==
  IF Len(v) < 2 THEN <<>>
  ELSE IF Len(v) = 2 THEN SubSeq(base64Group(v[1], v[2], 0, 0), 1, 1)
  ELSE IF Len(v) = 3 THEN SubSeq(base64Group(v[1], v[2], v[3], 0), 1, 2)
  ELSE base64Group(v[1], v[2], v[3], v[4]) \o base64Groups(SubSeq(v, 5, Len(v)))

base64Bytes(text) == base64Groups(base64Values(text))

RECURSIVE withoutWhiteSpace(_)
withoutWhiteSpace(s) ==
  IF Len(s) = 0 THEN s
  ELSE (IF SubSeq(s, 1, 1) \in WhiteSpace THEN "" ELSE SubSeq(s, 1, 1))
         \o withoutWhiteSpace(SubSeq(s, 2, Len(s)))

\* index.ts lines 903-916; the bytes decoded are a buffer without chunks or tags
fromSanitized(sanitized) ==
  IF sanitized = "" \/ Len(sanitized) % 4 = 1 THEN Null
  ELSE IF \E i \in 1..Len(sanitized) : SubSeq(sanitized, i, i) \notin Base64Accepted THEN Null
  ELSE Buffer(base64Bytes(sanitized), <<>>, NoImage, <<>>, NoTags, "")

bufferFromBase64(value) == fromSanitized(withoutWhiteSpace(value))

\* index.ts lines 885-901, for the values that are base64 data URIs or no data
\* URI at all
dataUriData(data) == IF data = "" THEN Null ELSE bufferFromBase64(data)

dataUriFrom(value, commaIndex) ==
  IF commaIndex = -1 THEN Null
  ELSE dataUriData(trim(slice(value, commaIndex + 1, Len(value))))

decodeDataUri(value) ==
  IF ~startsWith(value, "data:") THEN Null ELSE dataUriFrom(value, indexOf(value, ","))

\* index.ts lines 990-1140 and 1330-1347 for the chunks of the model: parameters
\* or prompt, then Description, then the stealth tier; lines 1141-1328 when the
\* tag library throws
sdDescribed(chunks, md) ==
  IF Text(chunks, "Description") # "" /\ ~Truthy(md, "prompt")
  THEN Put(md, "prompt", Text(chunks, "Description"))
  ELSE md

sdPng(b, chunks) == pngStealth(b, sdDescribed(chunks, pngPrimary(chunks)))

sdReturn(md) == IF DOMAIN md = {} THEN NullResult ELSE md

sdMetadataOf(b, format) ==
  sdReturn(IF format = "png" THEN sdPng(b, extractPngTextChunks(b)) ELSE EmptyObject)

\* index.ts lines 918-1355.  source is a Buffer or a string; a string is a data
\* URI, an http(s) URL (fetched over the network, which no string of the model
\* asks for) or base64 text, never the path of a file
sdOfFormat(b, format) == IF format = "" THEN NullResult ELSE sdMetadataOf(b, format)

sdOfBuffer(b) == IF b = Null THEN NullResult ELSE sdOfFormat(b, detectImageFormat(b))

orBase64(dataUriBuffer, trimmed) ==
  IF dataUriBuffer # Null THEN dataUriBuffer
  ELSE IF startsWith(trimmed, "http://") \/ startsWith(trimmed, "https://") THEN Null
  ELSE bufferFromBase64(trimmed)

bufferOfString(trimmed) ==
  IF trimmed = "" THEN Null ELSE orBase64(decodeDataUri(trimmed), trimmed)

extractSDMetadata(source) ==
  sdOfBuffer(IF source.isBuffer THEN source.buffer ELSE bufferOfString(trim(source.text)))

OfBuffer(b) == [isBuffer |-> TRUE, buffer |-> b, text |-> ""]
OfString(s) == [isBuffer |-> FALSE, buffer |-> Null, text |-> s]

\* path.extname of the text in front of '?' and '#': from the last dot of the
\* last path segment, '' when there is none or the segment starts with it
lastIndexOf(s, c) ==
  LET hits == { i \in 1..Len(s) : SubSeq(s, i, i) = c }
  IN IF hits = {} THEN -1 ELSE (CHOOSE i \in hits : \A j \in hits : j <= i) - 1

cutAt(s, c) == IF indexOf(s, c) = -1 THEN s ELSE slice(s, 0, indexOf(s, c))

extFrom(base, dot) == IF dot <= 0 THEN "" ELSE slice(base, dot, Len(base))
extOfBase(base) == extFrom(base, lastIndexOf(base, "."))
extname(p) == extOfBase(slice(p, lastIndexOf(p, "/") + 1, Len(p)))

\* index.ts lines 723-742
RECURSIVE guessFrom(_)
extOr(ext, candidates) == IF ext # "" THEN ext ELSE guessFrom(candidates)

guessFrom(candidates) ==
  IF Len(candidates) = 0 THEN ".img"
  ELSE IF candidates[1] = Undef THEN guessFrom(Tail(candidates))
  ELSE extOr(extname(cutAt(cutAt(candidates[1].v, "?"), "#")), Tail(candidates))

guessFileExtension(attrs, sourceHint) ==
  guessFrom([i \in 1..8 |->
               MapGet(attrs, <<"file", "filename", "name", "image", "path", "localPath",
                               "src", "url">>[i])] \o <<sourceHint>>)

\* Date.now() and Math.random().toString(36).slice(2) of the runs of the model
Stamps == {"1700000000000", "1700000000001"}
Randoms == {"k3x9", "0"}

\* index.ts lines 744-765: null when the directory or the file cannot be written
createTempCacheFile(attrs, sourceHint, dirOk, writeOk, stamp, random) ==
  IF ~dirOk \/ ~writeOk THEN Null
  ELSE Str(CACHE_DIR \o "/" \o stamp \o "-" \o random \o guessFileExtension(attrs, sourceHint))

TempFileAttrs ==
  { EmptyMap, [k \in {"file"} |-> Str("cat.png")], [k \in {"src"} |-> Str("http://h/p/cat.jpeg?x=1#top")],
    [k \in {"name"} |-> Str("noextension")] }

TempFileBuffers ==
  { Buffer(head, <<>>, NoImage, <<>>, NoTags, "") : head \in {<<>>, WaveHead, JpegHead, WebpHead} }
  \cup { Buffer(PngHead, chunks, image, <<>>, NoTags, "") :
           chunks \in { <<>>, <<tEXt("parameters", A1111Text)>>, <<tEXt("prompt", "plain prompt")>>,
                        <<tEXt("Description", "a cat")>>,
                        <<tEXt("Description", "a cat"), tEXt("parameters", A1111Text)>> },
           image \in PngImages }

InitTempFile ==
  /\ pc = "start"
  /\ buffer \in TempFileBuffers
  /\ parameters \in TempFileAttrs
  /\ exifData \in BOOLEAN
  /\ result = NullResult
  /\ ran = <<>>
  /\ workflow = Idle /\ png = Idle /\ metadata = Idle /\ textChunks = Idle

\* index.ts lines 783-791: the path is what is extracted from when there is one,
\* and the file is removed at the end; mkdir is called while cacheDirEnsured is
\* false, writeFile once the directory is there
WithTempPath(tempPath) ==
  /\ result' = extractSDMetadata(IF tempPath # Null THEN OfString(tempPath.v)
                                 ELSE OfBuffer(buffer))
  /\ ran' = (IF exifData THEN <<>> ELSE <<"mkdir">>)
              \o (IF exifData' THEN <<"writeFile">> ELSE <<>>)
              \o (IF tempPath # Null THEN <<"unlink">> ELSE <<>>)

\* index.ts lines 780-793, with ensureCacheDir (lines 707-721) and the removal of
\* the file (lines 767-778); whether mkdir and writeFile succeed is the file
\* system's choice
ExtractMetadataWithCache ==
  /\ pc = "start"
  /\ \E dirOk \in BOOLEAN, writeOk \in BOOLEAN, stamp \in Stamps, random \in Randoms,
        sourceHint \in {Undef, Str("http://h/p/dog.webp")} :
       /\ exifData' = (exifData \/ dirOk)
       /\ WithTempPath(createTempCacheFile(parameters, sourceHint, exifData \/ dirOk,
                                           writeOk, stamp, random))
  /\ pc' = "done"
  /\ UNCHANGED <<buffer, parameters, workflow, png, metadata, textChunks>>

NextTempFile == ExtractMetadataWithCache

SpecTempFile == InitTempFile /\ [][NextTempFile]_vars

\* C30: extractMetadataWithCache returns, for every buffer, the metadata that
\* extractSDMetadata returns for the buffer itself, whether or not the temporary
\* file could be created.
C30_SameAsDirect == pc = "done" => result = extractSDMetadata(OfBuffer(buffer))

====
